---- MODULE Spec2Model ----
(***************************************************************************)
(* State-machine model of the agent263 OCR / verification / assessment     *)
(* services (src/main.py, src/ocr.py, src/ocr_api.py).                     *)
(*                                                                         *)
(* Two specifications share the variables below:                           *)
(*   SpecAssess  one call of assess_submitted_assignment                   *)
(*   Spec        one HTTP request (or one direct call of process_file)     *)
(*               taken step by step through its handler                    *)
(* The question, content and plan handlers of ocr_api.py are line-for-line *)
(* those of main.py and are modelled by the same operations.               *)
(***************************************************************************)
EXTENDS Integers, Sequences, FiniteSets, TLC

VARIABLES
    op,               \* operation being run ("idle" before the request)
    pc,               \* position inside the operation
    label,            \* caller-supplied category or module
    files,            \* declared media type of each uploaded file
    idx,              \* index of the file being processed
    form_scheme,      \* marking_scheme form value of the v2 assessment
    params,           \* JSON body / path parameters of a request without upload
    marking_scheme,   \* marking scheme passed to assess_submitted_assignment
    markdown_content, \* OCR text blob
    ai,               \* what the generative provider does when called
    result,           \* value returned by the function under analysis
    locals,           \* locals of the mark consistency check at return
    disk,             \* temp files currently on disk
    tmp_path,         \* process_file / upload_file local tmp_path
    calls,            \* number of calls made to each external operation
    results,          \* general_ocr: entries collected so far
    status,           \* HTTP status of the response (0: none yet)
    body              \* HTTP response body

vars == <<op, pc, label, files, idx, form_scheme, params, marking_scheme,
          markdown_content, ai, result, locals, disk, tmp_path, calls,
          results, status, body>>

\* what the caller sent
request == <<op, label, files, form_scheme, params>>

----------------------------------------------------------------------------
(* Allow-lists                                                              *)

VALID_CATEGORIES ==
    {"Proof of Identity", "Proof of Residence", "Proof of Income",
     "Employment Letter", "Application Form"}

VALID_MODULES ==
    {"Machine Learning", "Data Structures and Algorithms",
     "Database Systems", "Operating Systems", "Computer Networks",
     "Software Engineering", "Artificial Intelligence", "Cloud Computing",
     "Web Development", "Cybersecurity Fundamentals"}

valid_types == {"application/pdf", "image/jpeg", "image/png"}

----------------------------------------------------------------------------
(* IEEE-754 binary64 arithmetic, as used by Python's "/" and "*" on ints    *)
(* and floats.  A positive double is [m, e]: m is the 53-bit significand    *)
(* as six limbs (a 3-bit limb in 4..7 followed by five 10-bit limbs) and    *)
(* the value is m * 2^(e - 52).                                             *)

RECURSIVE Pow2(_)
Pow2(n) == IF n = 0 THEN 1 ELSE 2 * Pow2(n - 1)

LimbBase == Pow2(10)

\* scale n/d into [1, 2), counting the binary exponent
RECURSIVE Normalize(_, _, _)
Normalize(n, d, e) ==
    IF n >= 2 * d THEN Normalize(n, 2 * d, e + 1)
    ELSE IF n < d THEN Normalize(2 * n, d, e - 1)
    ELSE [n |-> n, d |-> d, e |-> e]

\* long division, ten quotient bits at a time
RECURSIVE DivLimbs(_, _, _, _)
DivLimbs(r, d, k, acc) ==
    IF k = 0 THEN [limbs |-> acc, rem |-> r]
    ELSE DivLimbs((r * LimbBase) % d, d, k - 1,
                  Append(acc, (r * LimbBase) \div d))

RECURSIVE IncLimbs(_, _)
IncLimbs(m, i) ==
    IF i = 1 THEN [m EXCEPT ![1] = m[1] + 1]
    ELSE IF m[i] < LimbBase - 1 THEN [m EXCEPT ![i] = m[i] + 1]
    ELSE IncLimbs([m EXCEPT ![i] = 0], i - 1)

\* round to nearest, ties to even: "up" says the discarded part calls for
\* an increment of the significand
RoundNearestEven(m, e, up) ==
    LET r == IF up THEN IncLimbs(m, Len(m)) ELSE m
    IN IF r[1] >= 8 THEN [m |-> <<4, 0, 0, 0, 0, 0>>, e |-> e + 1]
       ELSE [m |-> r, e |-> e]

\* a / b for positive integers a, b (int / int is a correctly rounded double)
FloatDiv(a, b) ==
    LET nz == Normalize(a, b, 0)
        q  == DivLimbs((4 * nz.n) % nz.d, nz.d, 5, <<(4 * nz.n) \div nz.d>>)
        up == 2 * q.rem > nz.d \/ (2 * q.rem = nz.d /\ q.limbs[6] % 2 = 1)
    IN RoundNearestEven(q.limbs, nz.e, up)

RECURSIVE MulLimbs(_, _, _, _, _)
MulLimbs(m, c, i, carry, acc) ==
    IF i = 1 THEN <<m[1] * c + carry>> \o acc
    ELSE LET v == m[i] * c + carry
         IN MulLimbs(m, c, i - 1, v \div LimbBase, <<v % LimbBase>> \o acc)

ShiftRight(p, s) ==
    [i \in 1..Len(p) |->
        IF i = 1 THEN p[1] \div Pow2(s)
        ELSE (p[i - 1] % Pow2(s)) * (LimbBase \div Pow2(s))
             + p[i] \div Pow2(s)]

RECURSIVE Excess(_, _)
Excess(t, s) == IF t < 8 THEN s ELSE Excess(t \div 2, s + 1)

\* f * c for a positive double f and a small positive integer c
FloatMulInt(f, c) ==
    LET p    == MulLimbs(f.m, c, Len(f.m), 0, <<>>)
        s    == Excess(p[1], 0)
        lost == p[Len(p)] % Pow2(s)
        top  == ShiftRight(p, s)
        up   == s > 0 /\ (2 * lost > Pow2(s)
                          \/ (2 * lost = Pow2(s)
                              /\ top[Len(top)] % 2 = 1))
    IN RoundNearestEven(top, f.e + s, up)

\* Python round(x) of a positive double below 8192: the nearest integer to
\* the double's exact value, exact halves going to the even neighbour
PyRoundFloat(f) ==
    IF f.e < -1 THEN 0
    ELSE LET y    == (f.m[1] * LimbBase + f.m[2]) * LimbBase + f.m[3]
             sh   == 22 - f.e
             ip   == y \div Pow2(sh)
             fr   == y % Pow2(sh)
             rest == f.m[4] > 0 \/ f.m[5] > 0 \/ f.m[6] > 0
             up   == 2 * fr > Pow2(sh)
                     \/ (2 * fr = Pow2(sh) /\ (rest \/ ip % 2 = 1))
         IN IF up THEN ip + 1 ELSE ip

\* round((total_awarded / total_possible) * 100) for total_possible > 0
PercentOfMarks(total_awarded, total_possible) ==
    IF total_awarded = 0 THEN 0
    ELSE IF total_awarded < 0
         THEN 0 - PyRoundFloat(FloatMulInt(
                      FloatDiv(0 - total_awarded, total_possible), 100))
         ELSE PyRoundFloat(FloatMulInt(
                      FloatDiv(total_awarded, total_possible), 100))

----------------------------------------------------------------------------
(* JSON values and Python strings                                           *)
(* A scalar is [t, n, s]: t its type, n its number, s its text as a         *)
(* sequence of string pieces (an f-string yields one piece per part).       *)

JInt(n)  == [t |-> "int", n |-> n, s |-> <<>>]
JStr(s)  == [t |-> "str", n |-> 0, s |-> s]
JBool(b) == [t |-> "bool", n |-> IF b THEN 1 ELSE 0, s |-> <<>>]
JNull    == [t |-> "null", n |-> 0, s |-> <<>>]
JAbsent  == [t |-> "absent", n |-> 0, s |-> <<>>]   \* key not in the object
JEmptyList == [t |-> "list", n |-> 0, s |-> <<>>]

\* str(v) / f"{v}"
Fmt(v) ==
    CASE v.t = "int"  -> <<ToString(v.n)>>
      [] v.t = "str"  -> v.s
      [] v.t = "bool" -> IF v.n = 1 THEN <<"True">> ELSE <<"False">>
      [] OTHER        -> <<"None">>

\* Python ==  between an int and a JSON scalar
PyEqInt(i, v) == (v.t = "int" \/ v.t = "bool") /\ v.n = i

\* variant: .get always yields the default
Get_always_default(d, k, default) == default

\* d.get(k, default) on an object modelled as a function over its keys
Get(d, k, default) == IF k \in DOMAIN d THEN d[k] ELSE default

\* d[k] = v
Put(d, k, v) == [x \in (DOMAIN d) \cup {k} |-> IF x = k THEN v ELSE d[x]]

Contains(s, piece) == \E i \in 1..Len(s) : s[i] = piece

----------------------------------------------------------------------------
(* assess_submitted_assignment                                              *)

required_keys_assessment ==
    {"is_correct_module", "confidence_assessment_score", "marks_percentage",
     "overall_feedback", "assessment_details"}

\* A question entry of assessment_details is [t, awarded, max]: t = "obj"
\* for a JSON object (awarded / max are its awarded_marks / max_marks,
\* JAbsent when the key is missing), any other t for a non-object.
\* assessment_details itself is [t, entries]: entries in insertion order.

\* x += v  for an int x: the new value, or the TypeError
AddMark(x, v) ==
    CASE v.t = "int" \/ v.t = "bool" -> [err |-> <<>>, n |-> x + v.n]
      [] OTHER -> [err |-> <<"unsupported operand type(s) for +=">>, n |-> x]

\* the for loop over assessment_details.items()
RECURSIVE SumMarks(_, _, _, _)
SumMarks(entries, i, total_awarded, total_possible) ==
    IF i > Len(entries)
    THEN [err |-> <<>>, total_awarded |-> total_awarded,
          total_possible |-> total_possible]
    ELSE IF entries[i].t # "obj"
    THEN [err |-> <<"object has no attribute 'get'">>,
          total_awarded |-> total_awarded, total_possible |-> total_possible]
    ELSE LET a == AddMark(total_awarded,
                          IF entries[i].awarded.t = "absent" THEN JInt(0)
                          ELSE entries[i].awarded)
             m == AddMark(total_possible,
                          IF entries[i].max.t = "absent" THEN JInt(0)
                          ELSE entries[i].max)
         IN IF a.err # <<>>
            THEN [err |-> a.err, total_awarded |-> total_awarded,
                  total_possible |-> total_possible]
            ELSE IF m.err # <<>>
            THEN [err |-> m.err, total_awarded |-> a.n,
                  total_possible |-> total_possible]
            ELSE SumMarks(entries, i + 1, a.n, m.n)

calculated_percentage(total_awarded, total_possible) ==
    IF total_possible > 0
    THEN PercentOfMarks(total_awarded, total_possible)
    ELSE 0

\* variant: a reported percentage below the calculated one passes as verified
mark_consistency_check_atleast(calculated, reported) ==
    IF (reported.t = "int" \/ reported.t = "bool") /\ calculated >= reported.n
    THEN JStr(<<"Verified">>)
    ELSE JStr(<<"Inconsistency detected: Calculated ">>
              \o <<ToString(calculated)>> \o <<"% vs Reported ">>
              \o Fmt(reported) \o <<"%">>)

\* variant: the message names the calculated value twice
mark_consistency_check_one_value(calculated, reported) ==
    IF PyEqInt(calculated, reported)
    THEN JStr(<<"Verified">>)
    ELSE JStr(<<"Inconsistency detected: Calculated ">>
              \o <<ToString(calculated)>> \o <<"% vs Reported ">>
              \o <<ToString(calculated)>> \o <<"%">>)

mark_consistency_check(calculated, reported) ==
    IF PyEqInt(calculated, reported)
    THEN JStr(<<"Verified">>)
    ELSE JStr(<<"Inconsistency detected: Calculated ">>
              \o <<ToString(calculated)>> \o <<"% vs Reported ">>
              \o Fmt(reported) \o <<"%">>)

\* the object built in the except branch
FailedAssessment(e) ==
    [k \in required_keys_assessment
           \cup {"total_possible_marks", "marks_achieved",
                 "mark_consistency_check", "marking_scheme_used"} |->
        CASE k = "is_correct_module" -> JBool(FALSE)
          [] k = "confidence_assessment_score" -> JInt(0)
          [] k = "total_possible_marks" -> JInt(0)
          [] k = "marks_achieved" -> JInt(0)
          [] k = "marks_percentage" -> JInt(0)
          [] k = "overall_feedback" -> JStr(<<"Assessment failed: ">> \o e)
          [] k = "assessment_details" -> [t |-> "obj", entries |-> <<>>]
          [] k = "mark_consistency_check" ->
                 JStr(<<"Not performed due to error">>)
          [] OTHER -> JBool(FALSE)]

NoLocals ==
    [total_awarded |-> 0, total_possible |-> 0, calculated_percentage |-> 0,
     checked |-> FALSE]

\* variant: the check also writes the calculated value over the reported one
AnnotateAssessment_repairs(assessment, calculated, scheme) ==
    Put(Put(Put(assessment, "marks_percentage", JInt(calculated)),
            "mark_consistency_check",
            mark_consistency_check(
                calculated, Get(assessment, "marks_percentage", JInt(0)))),
        "marking_scheme_used", JBool(scheme.t # "none"))

\* variant: a consistency note the model wrote itself is kept
AnnotateAssessment_keeps_note(assessment, calculated, scheme) ==
    Put(IF "mark_consistency_check" \in DOMAIN assessment
        THEN assessment
        ELSE Put(assessment, "mark_consistency_check",
                 mark_consistency_check(
                     calculated,
                     Get(assessment, "marks_percentage", JInt(0)))),
        "marking_scheme_used", JBool(scheme.t # "none"))

\* assessment["mark_consistency_check"] = ...;
\* assessment["marking_scheme_used"] = marking_scheme is not None
AnnotateAssessment(assessment, calculated, scheme) ==
    Put(Put(assessment, "mark_consistency_check",
            mark_consistency_check(
                calculated, Get(assessment, "marks_percentage", JInt(0)))),
        "marking_scheme_used", JBool(scheme.t # "none"))

\* What gemini_model.generate_content(prompt) does is an input: kind
\* "error" (the call raises), "no_json" (text without a {...} span),
\* "bad_json" (a span json.loads rejects) or "object" (the span parses to
\* obj).  ParseGemini is the path from the call to json.loads.
ParseGemini(gemini) ==
    CASE gemini.kind = "error"    -> <<"generate_content failed">>
      [] gemini.kind = "no_json"  -> <<"No JSON found in Gemini response">>
      [] gemini.kind = "bad_json" -> <<"JSONDecodeError">>
      [] OTHER                    -> <<>>

\* The try body from the provider call on: err is the message of the
\* exception raised (<<>> when none), value the assessment returned.
AssessTry(gemini, scheme) ==
    IF ParseGemini(gemini) # <<>>
    THEN [err |-> ParseGemini(gemini), value |-> <<>>, locals |-> NoLocals]
    ELSE IF ~(required_keys_assessment \subseteq DOMAIN gemini.obj)
    THEN [err |-> <<"Invalid assessment response format">>, value |-> <<>>,
          locals |-> NoLocals]
    ELSE IF gemini.obj["assessment_details"].t # "obj"
    THEN [err |-> <<"object has no attribute 'items'">>, value |-> <<>>,
          locals |-> NoLocals]
    ELSE LET sums == SumMarks(gemini.obj["assessment_details"].entries,
                              1, 0, 0)
             calc == calculated_percentage(sums.total_awarded,
                                           sums.total_possible)
         IN IF sums.err # <<>>
            THEN [err |-> sums.err, value |-> <<>>, locals |-> NoLocals]
            ELSE [err |-> <<>>,
                  value |-> AnnotateAssessment(gemini.obj, calc, scheme),
                  locals |-> [total_awarded |-> sums.total_awarded,
                              total_possible |-> sums.total_possible,
                              calculated_percentage |-> calc,
                              checked |-> TRUE]]

\* variant: the except branch covers only the provider call and the parse
assess_submitted_assignment_narrow_except(module, markdown, scheme, gemini) ==
    LET t == AssessTry(gemini, scheme)
    IN IF t.err # <<>> /\ ParseGemini(gemini) # <<>>
       THEN [raised |-> FALSE, value |-> FailedAssessment(t.err),
             locals |-> NoLocals]
       ELSE IF t.err # <<>>
       THEN [raised |-> TRUE, value |-> <<>>, locals |-> NoLocals]
       ELSE [raised |-> FALSE, value |-> t.value, locals |-> t.locals]

\* try: ... except Exception as e: return {...}
assess_submitted_assignment(module, markdown, scheme, gemini) ==
    LET t == AssessTry(gemini, scheme)
    IN IF t.err # <<>>
       THEN [raised |-> FALSE, value |-> FailedAssessment(t.err),
             locals |-> NoLocals]
       ELSE [raised |-> FALSE, value |-> t.value, locals |-> t.locals]

----------------------------------------------------------------------------
(* Inputs of the function-level specifications                              *)

MaxQuestions == 2

Question(awarded, max) == [t |-> "obj", awarded |-> awarded, max |-> max]

\* entries of assessment_details the generative model may emit
QuestionEntries ==
    { Question(JInt(40), JInt(50)), Question(JInt(23), JInt(40)),
      Question(JInt(1), JInt(8)),   Question(JInt(3), JInt(8)),
      Question(JInt(8), JInt(8)),   Question(JInt(0), JInt(0)),
      Question(JInt(1), JInt(-8)),  Question(JInt(-1), JInt(8)),
      Question(JAbsent, JInt(8)),   Question(JInt(1), JAbsent),
      Question(JStr(<<"ten">>), JInt(8)),
      Question(JInt(1), JNull),
      [t |-> "int", awarded |-> JAbsent, max |-> JAbsent] }

RECURSIVE SeqsUpTo(_, _)
SeqsUpTo(S, n) ==
    IF n = 0 THEN {<<>>}
    ELSE LET shorter == SeqsUpTo(S, n - 1)
         IN shorter \cup {Append(q, x) : q \in shorter, x \in S}

DetailsValues ==
    {[t |-> "obj", entries |-> q] : q \in SeqsUpTo(QuestionEntries, MaxQuestions)}
    \cup {[t |-> "list", entries |-> <<>>]}

ReportedValues ==
    {JInt(0), JInt(12), JInt(13), JInt(50), JInt(57), JInt(58), JInt(80),
     JStr(<<"80">>)}

\* a complete answer of the model, with its own consistency note
ModelAssessment(details, reported) ==
    [k \in required_keys_assessment
           \cup {"marks_achieved", "mark_consistency_check"} |->
        CASE k = "is_correct_module" -> JBool(TRUE)
          [] k = "confidence_assessment_score" -> JInt(90)
          [] k = "marks_percentage" -> reported
          [] k = "overall_feedback" -> JStr(<<"Good work">>)
          [] k = "assessment_details" -> details
          [] k = "marks_achieved" -> JInt(40)
          [] OTHER -> JStr(<<"Marks add up">>)]

Without(d, k) == [x \in (DOMAIN d) \ {k} |-> d[x]]

GeminiOutcomes ==
    {[kind |-> k, obj |-> <<>>] : k \in {"error", "no_json", "bad_json"}}
    \cup {[kind |-> "object", obj |-> ModelAssessment(d, r)] :
              d \in DetailsValues, r \in ReportedValues}
    \cup {[kind |-> "object",
           obj |-> Without(ModelAssessment(
                               [t |-> "obj",
                                entries |-> <<Question(JInt(40), JInt(50))>>],
                               JInt(80)), k)] :
              k \in required_keys_assessment \cup {"mark_consistency_check"}}

\* marking_scheme: None, {} or a non-empty object
Schemes ==
    {[t |-> "none", size |-> 0], [t |-> "obj", size |-> 0],
     [t |-> "obj", size |-> 1]}

NoCalls ==
    [upload |-> 0, signed_url |-> 0, ocr |-> 0, generate |-> 0,
     retrieve |-> 0, head |-> 0, get |-> 0]

\* body / path parameters of an operation that takes none
NoParams ==
    [difficulty |-> JAbsent, questionTypes |-> JAbsent,
     numberOfQuestions |-> JAbsent, documents |-> <<>>, profile |-> "none",
     file_id |-> "none", download |-> FALSE]

NoResult == [raised |-> FALSE, value |-> <<>>]

----------------------------------------------------------------------------
(* SpecAssess: one call of assess_submitted_assignment                      *)

InitAssess ==
    /\ op = "assess_submitted_assignment"
    /\ pc = "call"
    /\ label \in {"Machine Learning", "Database Systems"}
    /\ files = <<"application/pdf">>
    /\ idx = 1
    /\ form_scheme = "none"
    /\ params = NoParams
    /\ marking_scheme \in Schemes
    /\ markdown_content = <<"answer sheet">>
    /\ ai \in GeminiOutcomes
    /\ result = NoResult
    /\ locals = NoLocals
    /\ disk = {}
    /\ tmp_path = "unbound"
    /\ calls = NoCalls
    /\ results = <<>>
    /\ status = 0
    /\ body = <<>>

CallAssess ==
    /\ op = "assess_submitted_assignment"
    /\ pc = "call"
    /\ LET r == assess_submitted_assignment(label, markdown_content,
                                            marking_scheme, ai)
       IN /\ result' = [raised |-> r.raised, value |-> r.value]
          /\ locals' = r.locals
    /\ calls' = [calls EXCEPT !.generate = @ + 1]
    /\ pc' = "returned"
    /\ UNCHANGED <<request, idx, marking_scheme, markdown_content, ai, disk,
                   tmp_path, results, status, body>>

NextAssess == CallAssess

SpecAssess == InitAssess /\ [][NextAssess]_vars

----------------------------------------------------------------------------
(* verify_document_category                                                 *)

\* required_keys of the main.py service and of the ocr.py service
required_keys_verification(service) ==
    IF service = "ocr"
    THEN {"verified", "confidence", "reason", "missing_fields"}
    ELSE {"verified", "confidence", "reason", "correct_category"}

\* a JSON string holding exactly one of the given names
IsOneOf(v, names) == v.t = "str" /\ Len(v.s) = 1 /\ v.s[1] \in names

\* variant: the suggested category is passed through as the model gave it
CoerceCategory_passthrough(verification, category) == verification

\* if verification["correct_category"] not in VALID_CATEGORIES: ... = category
CoerceCategory(verification, category) ==
    IF IsOneOf(verification["correct_category"], VALID_CATEGORIES)
    THEN verification
    ELSE Put(verification, "correct_category", JStr(<<category>>))

\* the object built in the except branch
FailedVerification(service, category, e) ==
    [k \in required_keys_verification(service) |->
        CASE k = "verified" -> JBool(FALSE)
          [] k = "confidence" -> JInt(0)
          [] k = "reason" -> JStr(<<"Verification failed: ">> \o e)
          [] k = "missing_fields" -> JEmptyList
          [] OTHER -> JStr(<<category>>)]

\* What the generative call does is an input: kind "error" (the call
\* raises), "no_json" (text without a {...} span), "bad_json" (text that
\* json.loads rejects) or "value" (json.loads returns a value of JSON type
\* jt; obj is the object when jt = "obj"; for a list or a string, haskeys
\* says whether every required key is "in" it).  ocr.py parses a {...}
\* span, so there jt is always "obj".
\* The try body from the provider call on.
VerifyTry(service, category, model) ==
    IF model.kind = "error"
    THEN [err |-> <<"provider call failed">>, value |-> <<>>]
    ELSE IF model.kind = "no_json" /\ service = "ocr"
    THEN [err |-> <<"No JSON found in Gemini response">>, value |-> <<>>]
    ELSE IF model.kind \in {"no_json", "bad_json"}
    THEN [err |-> <<"JSONDecodeError">>, value |-> <<>>]
    ELSE IF model.jt \in {"int", "null"}
    THEN [err |-> <<"argument is not iterable">>, value |-> <<>>]
    ELSE IF model.jt \in {"list", "str"}
    THEN IF ~model.haskeys
         THEN [err |-> <<"Invalid verification response format">>,
               value |-> <<>>]
         ELSE [err |-> <<"indices must be integers">>, value |-> <<>>]
    ELSE IF ~(required_keys_verification(service) \subseteq DOMAIN model.obj)
    THEN [err |-> <<"Invalid verification response format">>, value |-> <<>>]
    ELSE IF service = "ocr"
    THEN [err |-> <<>>, value |-> model.obj]
    ELSE [err |-> <<>>, value |-> CoerceCategory(model.obj, category)]

\* variant: a malformed answer is not caught
verify_document_category_narrow_except(service, category, markdown, model) ==
    LET t == VerifyTry(service, category, model)
    IN IF t.err # <<>> /\ model.kind = "error"
       THEN [raised |-> FALSE,
             value |-> FailedVerification(service, category, t.err)]
       ELSE IF t.err # <<>>
       THEN [raised |-> TRUE, value |-> <<>>]
       ELSE [raised |-> FALSE, value |-> t.value]

\* try: ... except Exception as e: return {...}
verify_document_category(service, category, markdown, model) ==
    LET t == VerifyTry(service, category, model)
    IN IF t.err # <<>>
       THEN [raised |-> FALSE,
             value |-> FailedVerification(service, category, t.err)]
       ELSE [raised |-> FALSE, value |-> t.value]

----------------------------------------------------------------------------
(* The request handlers                                                     *)

MaxFiles == 2

\* operations: "<service>.<handler>"; main.process_file is a direct call
VerifyOps == {"main.unified_ocr", "main.ocr_document", "main.ocr_image",
              "ocr.verify_document"}
AssessOps == {"main.assess_assignment_v1", "main.assess_assignment_v2",
              "ocr_api.assess_assignment_v1", "ocr_api.assess_assignment_v2"}
BatchOps  == {"main.general_ocr", "ocr_api.general_ocr"}
Ops == VerifyOps \cup AssessOps \cup BatchOps
         \cup {"main.upload_file", "main.process_file"}

ServiceOf(o) ==
    CASE o = "ocr.verify_document" -> "ocr"
      [] o \in {"ocr_api.assess_assignment_v1", "ocr_api.assess_assignment_v2",
                "ocr_api.general_ocr"} -> "ocr_api"
      [] OTHER -> "main"

\* labels a caller may send
Labels ==
    VALID_CATEGORIES \cup VALID_MODULES
      \cup {"proof of identity", "Proof of Identity ", "machine learning",
            "Bank Statement", ""}

ContentTypes == valid_types \cup {"text/plain"}

\* marking_scheme form values: not sent, empty, not JSON, and three JSON texts
FormSchemes == {"none", "", "{oops", "null", "{}", "{\"q1\": 10}"}

\* variant: a form value that does not parse is treated as no marking scheme
ParseScheme_lenient(form) ==
    CASE form = "{}" -> [err |-> FALSE, value |-> [t |-> "obj", size |-> 0]]
      [] form = "{\"q1\": 10}" ->
             [err |-> FALSE, value |-> [t |-> "obj", size |-> 1]]
      [] OTHER -> [err |-> FALSE, value |-> [t |-> "none", size |-> 0]]

\* json.loads(marking_scheme)
ParseScheme(form) ==
    CASE form = "{oops" -> [err |-> TRUE, value |-> [t |-> "none", size |-> 0]]
      [] form = "{}" -> [err |-> FALSE, value |-> [t |-> "obj", size |-> 0]]
      [] form = "{\"q1\": 10}" ->
             [err |-> FALSE, value |-> [t |-> "obj", size |-> 1]]
      [] OTHER -> [err |-> FALSE, value |-> [t |-> "none", size |-> 0]]

\* pairs of labels equal up to letter case
CaseVariants ==
    {<<"proof of identity", "Proof of Identity">>,
     <<"machine learning", "Machine Learning">>}

\* variant: the label is compared ignoring letter case
GateAccepts_ignoring_case(l, allowed) ==
    l \in allowed \/ \E c \in allowed : <<l, c>> \in CaseVariants

\* category not in VALID_CATEGORIES / module not in VALID_MODULES
GateAccepts(l, allowed) == l \in allowed

\* variant: general_ocr looks at the content type of the first file only
GateStatus_first_file_only(o, l, fs, form) ==
    IF o = "main.ocr_document" /\ fs[1] # "application/pdf" THEN 400
    ELSE IF o = "main.ocr_image" /\ fs[1] \notin {"image/jpeg", "image/png"}
    THEN 400
    ELSE IF o \in VerifyOps /\ ~GateAccepts(l, VALID_CATEGORIES) THEN 400
    ELSE IF o \in AssessOps /\ ~GateAccepts(l, VALID_MODULES) THEN 400
    ELSE IF o # "main.process_file" /\ fs[1] \notin valid_types
    THEN 400
    ELSE IF o \in {"main.assess_assignment_v2", "ocr_api.assess_assignment_v2"}
            /\ form # "none" /\ form # "" /\ ParseScheme(form).err
    THEN 400
    ELSE 0

\* the checks a handler makes before its try block: the status it raises,
\* or 0 when the request passes
GateStatus(o, l, fs, form) ==
    IF o = "main.ocr_document" /\ fs[1] # "application/pdf" THEN 400
    ELSE IF o = "main.ocr_image" /\ fs[1] \notin {"image/jpeg", "image/png"}
    THEN 400
    ELSE IF o \in VerifyOps /\ ~GateAccepts(l, VALID_CATEGORIES) THEN 400
    ELSE IF o \in AssessOps /\ ~GateAccepts(l, VALID_MODULES) THEN 400
    ELSE IF o # "main.process_file"
            /\ \E i \in 1..Len(fs) : fs[i] \notin valid_types
    THEN 400
    ELSE IF o \in {"main.assess_assignment_v2", "ocr_api.assess_assignment_v2"}
            /\ form # "none" /\ form # "" /\ ParseScheme(form).err
    THEN 400
    ELSE 0

\* scheme_dict after the parse (None unless a non-empty form value parsed)
SchemeDict(o, form) ==
    IF o \in {"main.assess_assignment_v2", "ocr_api.assess_assignment_v2"}
       /\ form # "none" /\ form # ""
    THEN ParseScheme(form).value
    ELSE [t |-> "none", size |-> 0]

\* name of the temp file NamedTemporaryFile creates for the i-th file
TempName(i) == <<"tmp", i>>

\* except branch of process_file / upload_file:
\* if 'tmp_path' in locals() and os.path.exists(tmp_path): os.unlink(tmp_path)
ExceptCleanup(d, tp) == IF tp # <<>> /\ tp \in d THEN d \ {tp} ELSE d

\* "\n\n".join(pages), a page being a sequence of text pieces
RECURSIVE JoinPages(_)
JoinPages(pages) ==
    IF pages = <<>> THEN <<>>
    ELSE IF Len(pages) = 1 THEN pages[1]
    ELSE pages[1] \o <<"\n\n">> \o JoinPages(Tail(pages))

\* markdown_content.count('\n\n') + 1
RECURSIVE CountBlank(_)
CountBlank(md) ==
    IF md = <<>> THEN 0
    ELSE (IF Head(md) = "\n\n" THEN 1 ELSE 0) + CountBlank(Tail(md))

PageCount(md) == CountBlank(md) + 1

\* what client.ocr.process returns: pages, or a page without text
OcrPages ==
    {<<>>, <<<<"p1">>>>, <<<<"p1">>, <<"p2">>>>,
     <<<<"p1", "\n\n", "more">>>>}

ocr_type(ct) == IF ct = "application/pdf" THEN "document" ELSE "image"

\* operations without an upload
QuestionOps == {"main.generate_assessment_questions_v1",
                "main.generate_assessment_questions_v2"}
ExtractOps  == {"main.extract_details"}
ContentOps  == {"main.generate_educational_content"}
PlanOps     == {"main.generate_study_plan"}
GenOps      == QuestionOps \cup ExtractOps \cup ContentOps \cup PlanOps
RetrieveOps == {"main.get_document", "main.get_document_info",
                "main.view_file"}

\* values a caller may send for difficulty, questionTypes, numberOfQuestions
Difficulties ==
    {JAbsent, JStr(<<"easy">>), JStr(<<"medium">>), JStr(<<"hard">>),
     JStr(<<"Easy">>), JStr(<<"extreme">>), JNull}

QuestionTypes ==
    {JAbsent, JStr(<<"multiple_choice">>), JStr(<<"structured">>),
     JStr(<<"mixed">>), JStr(<<"essay">>), JInt(1)}

NumbersOfQuestions ==
    {JAbsent, JInt(0), JInt(1), JInt(50), JInt(51), JInt(-1), JBool(TRUE),
     JBool(FALSE), JStr(<<"5">>), JNull}

\* a document list of the body: each document is the set of keys it has
DocumentLists ==
    {<<>>, <<{"documentName", "markdown"}>>, <<{"category", "markdown"}>>,
     <<{"markdown"}>>,
     <<{"category", "documentName", "markdown"},
       {"category", "documentName", "markdown"}>>}

\* the student profile of a plan request: complete, a key missing, or a
\* score that float() rejects
Profiles == {"ok", "missing_key", "bad_score"}

\* file identifiers: one the provider knows and one it does not
FileIds == {"file-1", "file-unknown"}

ParamsOf(o) ==
    CASE o \in QuestionOps ->
           {[NoParams EXCEPT !.difficulty = d, !.questionTypes = t,
                             !.numberOfQuestions = n, !.documents = docs] :
              d \in Difficulties, t \in QuestionTypes,
              n \in NumbersOfQuestions,
              docs \in {<<{"documentName", "markdown"}>>, <<{"markdown"}>>}}
      [] o \in ExtractOps \cup ContentOps ->
           {[NoParams EXCEPT !.documents = docs] : docs \in DocumentLists}
      [] o \in PlanOps ->
           {[NoParams EXCEPT !.documents = docs, !.profile = pr] :
              docs \in DocumentLists, pr \in Profiles}
      [] o = "main.get_document" ->
           {[NoParams EXCEPT !.file_id = f, !.download = dl] :
              f \in FileIds, dl \in BOOLEAN}
      [] o \in RetrieveOps ->
           {[NoParams EXCEPT !.file_id = f] : f \in FileIds}
      [] OTHER -> {NoParams}

Init ==
    /\ op \in Ops \cup GenOps \cup RetrieveOps
    /\ pc = (IF op \in GenOps THEN "params"
             ELSE IF op \in RetrieveOps THEN "lookup" ELSE "gates")
    /\ label \in (IF op \in VerifyOps \cup AssessOps THEN Labels ELSE {""})
    /\ files \in (IF op \in BatchOps
                  THEN UNION {[1..n -> ContentTypes] : n \in 1..MaxFiles}
                  ELSE IF op \in GenOps \cup RetrieveOps THEN {<<>>}
                  ELSE [1..1 -> ContentTypes])
    /\ idx = 1
    /\ form_scheme \in (IF op \in {"main.assess_assignment_v2",
                                   "ocr_api.assess_assignment_v2"}
                        THEN FormSchemes ELSE {"none"})
    /\ params \in ParamsOf(op)
    /\ marking_scheme = [t |-> "none", size |-> 0]
    /\ markdown_content = <<>>
    /\ ai = [kind |-> "none"]
    /\ result = NoResult
    /\ locals = NoLocals
    /\ disk = {}
    /\ tmp_path = <<>>
    /\ calls = NoCalls
    /\ results = <<>>
    /\ status = 0
    /\ body = <<>>

\* the request ends with an error status
Respond(code) ==
    /\ status' = code
    /\ pc' = "done"

\* variant: ocr_api.py has a process_file of its own, like main.py
ValidateRequest_process_file_defined ==
    /\ pc = "gates"
    /\ LET g == GateStatus(op, label, files, form_scheme)
       IN IF g # 0 THEN Respond(g) /\ UNCHANGED marking_scheme
          ELSE /\ pc' = "save_upload"
               /\ marking_scheme' = SchemeDict(op, form_scheme)
               /\ UNCHANGED status
    /\ UNCHANGED <<request, idx, markdown_content, ai, result, locals, disk,
                   tmp_path, calls, results, body>>

\* The handler's checks before its try block; a direct call of process_file
\* has none.  In ocr_api.py the name process_file is not defined, so the
\* first statement of the try block raises NameError.
ValidateRequest ==
    /\ pc = "gates"
    /\ LET g == GateStatus(op, label, files, form_scheme)
       IN IF g # 0 THEN Respond(g) /\ UNCHANGED marking_scheme
          ELSE IF ServiceOf(op) = "ocr_api"
          THEN Respond(500) /\ marking_scheme' = SchemeDict(op, form_scheme)
          ELSE /\ pc' = "save_upload"
               /\ marking_scheme' = SchemeDict(op, form_scheme)
               /\ UNCHANGED status
    /\ UNCHANGED <<request, idx, markdown_content, ai, result, locals, disk,
                   tmp_path, calls, results, body>>

\* variant: the failure of a process_file step is swallowed and the handler
\* carries on
RaiseFrom_swallowed(d, tp) ==
    /\ disk' = ExceptCleanup(d, tp)
    /\ pc' = "handler"
    /\ status' = status

\* except Exception as e: (cleanup); raise HTTPException(status_code=500),
\* which the handler's own except clause turns into a 500 response
RaiseFrom(d, tp) ==
    /\ disk' = ExceptCleanup(d, tp)
    /\ Respond(500)

\* with tempfile.NamedTemporaryFile(delete=False, ...) as tmp:
\*     content = file.file.read(); tmp.write(content); tmp_path = tmp.name
\* how: "ok", or the statement that raises.  The file exists once
\* NamedTemporaryFile has returned; tmp_path is bound only by the last line.
SaveUpload ==
    /\ pc = "save_upload"
    /\ \E how \in {"ok", "create", "read", "write"} :
         CASE how = "ok" ->
                /\ disk' = disk \cup {TempName(idx)}
                /\ tmp_path' = TempName(idx)
                /\ pc' = "upload"
                /\ UNCHANGED status
           [] how = "create" ->
                /\ tmp_path' = <<>>
                /\ RaiseFrom(disk, <<>>)
           [] OTHER ->
                /\ tmp_path' = <<>>
                /\ RaiseFrom(disk \cup {TempName(idx)}, <<>>)
    /\ UNCHANGED <<request, idx, marking_scheme, markdown_content, ai, result,
                   locals, calls, results, body>>

\* variant: a failed upload is tried again
FilesUpload_retrying ==
    /\ pc = "upload"
    /\ calls' = [calls EXCEPT !.upload = @ + 1]
    /\ \/ pc' = "signed_url" /\ UNCHANGED <<disk, status>>
       \/ calls.upload < idx + 1 /\ UNCHANGED <<pc, disk, status>>
       \/ RaiseFrom(disk, tmp_path)
    /\ UNCHANGED <<request, idx, marking_scheme, markdown_content, ai, result,
                   locals, tmp_path, results, body>>

\* client.files.upload(file={...}, purpose="ocr")
FilesUpload ==
    /\ pc = "upload"
    /\ calls' = [calls EXCEPT !.upload = @ + 1]
    /\ \/ pc' = "signed_url" /\ UNCHANGED <<disk, status>>
       \/ RaiseFrom(disk, tmp_path)
    /\ UNCHANGED <<request, idx, marking_scheme, markdown_content, ai, result,
                   locals, tmp_path, results, body>>

\* client.files.get_signed_url(file_id=file_id)
GetSignedUrl ==
    /\ pc = "signed_url"
    /\ calls' = [calls EXCEPT !.signed_url = @ + 1]
    /\ \/ /\ pc' = IF op = "main.upload_file" THEN "upload_respond" ELSE "ocr"
          /\ UNCHANGED <<disk, status>>
       \/ RaiseFrom(disk, tmp_path)
    /\ UNCHANGED <<request, idx, marking_scheme, markdown_content, ai, result,
                   locals, tmp_path, results, body>>

\* process_file from "Determine document type" to its return:
\* doc_type, client.ocr.process, os.unlink(tmp_path), the join of the pages
OcrProcess ==
    /\ pc = "ocr"
    /\ IF files[idx] \notin valid_types
       THEN \* raise ValueError("Unsupported file type")
            /\ RaiseFrom(disk, tmp_path)
            /\ UNCHANGED <<calls, markdown_content>>
       ELSE /\ calls' = [calls EXCEPT !.ocr = @ + 1]
            /\ \/ \* the OCR call raises
                  /\ RaiseFrom(disk, tmp_path)
                  /\ UNCHANGED markdown_content
               \/ \* a page has no text: the join raises after the unlink
                  /\ RaiseFrom(disk \ {tmp_path}, tmp_path)
                  /\ UNCHANGED markdown_content
               \/ \E pages \in OcrPages :
                    /\ disk' = disk \ {tmp_path}
                    /\ markdown_content' = JoinPages(pages)
                    /\ pc' = "handler"
                    /\ UNCHANGED status
    /\ UNCHANGED <<request, idx, marking_scheme, ai, result, locals, tmp_path,
                   results, body>>

filename(i) == JStr(<<"upload-", ToString(i)>>)
file_id(i)  == JStr(<<"file-", ToString(i)>>)
file_url(i) == JStr(<<"https://signed/">> \o file_id(i).s)
view_url(i) == JStr(<<"/file-view/">> \o file_id(i).s)

\* upload_file after the signed URL: os.unlink(tmp_path) and the response
UploadRespond ==
    /\ pc = "upload_respond"
    /\ disk' = disk \ {tmp_path}
    /\ status' = 200
    /\ body' = [k \in {"file_id", "file_url", "view_url", "content_type",
                       "filename"} |->
                  CASE k = "file_id" -> file_id(idx)
                    [] k = "file_url" -> file_url(idx)
                    [] k = "view_url" -> view_url(idx)
                    [] k = "content_type" -> JStr(<<files[idx]>>)
                    [] OTHER -> filename(idx)]
    /\ pc' = "done"
    /\ UNCHANGED <<request, idx, marking_scheme, markdown_content, ai, result,
                   locals, tmp_path, calls, results>>

\* a direct call of process_file returns (markdown_content, file_id, file_url)
ProcessFileReturn ==
    /\ pc = "handler"
    /\ op = "main.process_file"
    /\ result' = [raised |-> FALSE,
                  value |-> <<JStr(markdown_content), file_id(idx),
                              file_url(idx)>>]
    /\ pc' = "done"
    /\ UNCHANGED <<request, idx, marking_scheme, markdown_content, ai, locals,
                   disk, tmp_path, calls, results, status, body>>

\* variant: the response carries only the entry of the last file
CollectResult_last_only ==
    /\ pc = "handler"
    /\ op \in BatchOps
    /\ LET entry == [k \in {"documentName", "markdown", "file_id", "file_url",
                            "view_url"} |->
                       CASE k = "documentName" -> filename(idx)
                         [] k = "markdown" -> JStr(markdown_content)
                         [] k = "file_id" -> file_id(idx)
                         [] k = "file_url" -> file_url(idx)
                         [] OTHER -> view_url(idx)]
       IN /\ results' = Append(results, entry)
          /\ IF idx < Len(files)
             THEN /\ idx' = idx + 1
                  /\ pc' = "save_upload"
                  /\ UNCHANGED <<status, body>>
             ELSE /\ status' = 200
                  /\ body' = <<entry>>
                  /\ pc' = "done"
                  /\ UNCHANGED idx
    /\ UNCHANGED <<request, marking_scheme, markdown_content, ai, result,
                   locals, disk, tmp_path, calls>>

\* general_ocr: results.append({...}); next file, or the response
CollectResult ==
    /\ pc = "handler"
    /\ op \in BatchOps
    /\ LET entry == [k \in {"documentName", "markdown", "file_id", "file_url",
                            "view_url"} |->
                       CASE k = "documentName" -> filename(idx)
                         [] k = "markdown" -> JStr(markdown_content)
                         [] k = "file_id" -> file_id(idx)
                         [] k = "file_url" -> file_url(idx)
                         [] OTHER -> view_url(idx)]
       IN /\ results' = Append(results, entry)
          /\ IF idx < Len(files)
             THEN /\ idx' = idx + 1
                  /\ pc' = "save_upload"
                  /\ UNCHANGED <<status, body>>
             ELSE /\ status' = 200
                  /\ body' = Append(results, entry)
                  /\ pc' = "done"
                  /\ UNCHANGED idx
    /\ UNCHANGED <<request, marking_scheme, markdown_content, ai, result,
                   locals, disk, tmp_path, calls>>

\* an answer of the model to the verification prompt
ModelVerification(service, verified, suggested) ==
    [k \in required_keys_verification(service) |->
        CASE k = "verified" -> JBool(verified)
          [] k = "confidence" -> JInt(85)
          [] k = "reason" -> JStr(<<"Looks like another document">>)
          [] k = "missing_fields" -> JEmptyList
          [] OTHER -> suggested]

ModelValue(jt, haskeys, obj) ==
    [kind |-> "value", jt |-> jt, haskeys |-> haskeys, obj |-> obj]

\* what the generative provider may do on a verification prompt
VerifyOutcomes(service, category) ==
    {[kind |-> k, jt |-> "none", haskeys |-> FALSE, obj |-> <<>>] :
        k \in {"error", "no_json", "bad_json"}}
    \cup {ModelValue("obj", FALSE, ModelVerification(service, v, c)) :
            v \in BOOLEAN,
            c \in {JStr(<<category>>), JStr(<<"Proof of Income">>),
                   JStr(<<"Bank Statement">>), JStr(<<"proof of identity">>),
                   JInt(3), JNull}}
    \cup {ModelValue("obj", FALSE,
                     Without(ModelVerification(service, TRUE,
                                               JStr(<<category>>)), k)) :
            k \in required_keys_verification(service)}
    \cup (IF service = "ocr" THEN {}
          ELSE {ModelValue("list", TRUE, <<>>), ModelValue("list", FALSE, <<>>),
                ModelValue("str", TRUE, <<>>), ModelValue("int", FALSE, <<>>),
                ModelValue("null", FALSE, <<>>)})

\* unified_ocr / verify_document after process_file returned
VerifyAndRespond ==
    /\ pc = "handler"
    /\ op \in VerifyOps
    /\ \E model \in VerifyOutcomes(ServiceOf(op), label) :
         LET r == verify_document_category(ServiceOf(op), label,
                                           markdown_content, model)
             common == {"category", "filename", "content_type", "ocr_type",
                        "pages", "verification"}
             keys == IF ServiceOf(op) = "ocr" THEN common
                     ELSE common \cup {"markdown", "file_id", "file_url",
                                       "view_url"}
         IN /\ ai' = model
            /\ result' = r
            /\ IF r.raised
               THEN status' = 500 /\ body' = body
               ELSE /\ status' = 200
                    /\ body' =
                        [k \in keys |->
                          CASE k = "category" ->
                                 IF ServiceOf(op) = "ocr" THEN JStr(<<label>>)
                                 ELSE Get(r.value, "correct_category",
                                          JStr(<<label>>))
                            [] k = "filename" -> filename(idx)
                            [] k = "content_type" -> JStr(<<files[idx]>>)
                            [] k = "ocr_type" -> JStr(<<ocr_type(files[idx])>>)
                            [] k = "markdown" -> JStr(markdown_content)
                            [] k = "pages" -> JInt(PageCount(markdown_content))
                            [] k = "verification" -> r.value
                            [] k = "file_id" -> file_id(idx)
                            [] k = "file_url" -> file_url(idx)
                            [] OTHER -> view_url(idx)]
    /\ calls' = [calls EXCEPT !.generate = @ + 1]
    /\ pc' = "done"
    /\ UNCHANGED <<request, idx, marking_scheme, markdown_content, locals,
                   disk, tmp_path, results>>

\* answers of the model used at the level of a whole request
RequestGeminiOutcomes ==
    {[kind |-> k, obj |-> <<>>] : k \in {"error", "no_json", "bad_json"}}
    \cup {[kind |-> "object",
           obj |-> ModelAssessment([t |-> "obj", entries |-> <<q>>], r)] :
            q \in {Question(JInt(40), JInt(50)), Question(JInt(23), JInt(40)),
                   Question(JStr(<<"ten">>), JInt(8))},
            r \in {JInt(80), JInt(58)}}
    \cup {[kind |-> "object",
           obj |-> Without(ModelAssessment([t |-> "obj", entries |-> <<>>],
                                           JInt(0)), "marks_percentage")]}

\* The definition of assess_submitted_assignment the module binds first: no
\* marking scheme, no marking_scheme_used key.
assess_submitted_assignment_first(module, markdown, gemini) ==
    LET t == AssessTry(gemini, [t |-> "none", size |-> 0])
    IN IF t.err # <<>>
       THEN [raised |-> FALSE,
             value |-> Without(FailedAssessment(t.err), "marking_scheme_used"),
             locals |-> NoLocals]
       ELSE [raised |-> FALSE,
             value |-> Put(gemini.obj, "mark_consistency_check",
                           t.value["mark_consistency_check"]),
             locals |-> t.locals]

\* variant: each handler calls the definition that precedes it in the file
CallAssessment_preceding_definition(o, module, markdown, scheme, gemini) ==
    IF o = "main.assess_assignment_v1"
    THEN assess_submitted_assignment_first(module, markdown, gemini)
    ELSE assess_submitted_assignment(module, markdown, scheme, gemini)

\* assess_submitted_assignment(module, markdown_content[, scheme_dict]) in a
\* handler: the name is looked up when the call runs, after the module has
\* bound it a second time, so every handler calls the second definition; the
\* v1 handler passes no scheme and marking_scheme defaults to None.
CallAssessment(o, module, markdown, scheme, gemini) ==
    assess_submitted_assignment(
        module, markdown,
        IF o \in {"main.assess_assignment_v1", "ocr_api.assess_assignment_v1"}
        THEN [t |-> "none", size |-> 0] ELSE scheme,
        gemini)

\* assess_assignment (v1, v2) after process_file returned
AssessAndRespond ==
    /\ pc = "handler"
    /\ op \in AssessOps
    /\ \E gemini \in RequestGeminiOutcomes :
         LET r == CallAssessment(op, label, markdown_content,
                                 marking_scheme, gemini)
             keys == {"module", "filename", "content_type", "ocr_type",
                      "markdown", "pages", "assessment", "file_id",
                      "file_url", "view_url"}
                     \cup (IF marking_scheme.t = "obj"
                              /\ marking_scheme.size > 0
                           THEN {"marking_scheme"} ELSE {})
         IN /\ ai' = gemini
            /\ result' = [raised |-> r.raised, value |-> r.value]
            /\ locals' = r.locals
            /\ IF r.raised
               THEN status' = 500 /\ body' = body
               ELSE /\ status' = 200
                    /\ body' =
                        [k \in keys |->
                          CASE k = "module" -> JStr(<<label>>)
                            [] k = "filename" -> filename(idx)
                            [] k = "content_type" -> JStr(<<files[idx]>>)
                            [] k = "ocr_type" -> JStr(<<ocr_type(files[idx])>>)
                            [] k = "markdown" -> JStr(markdown_content)
                            [] k = "pages" -> JInt(PageCount(markdown_content))
                            [] k = "assessment" -> r.value
                            [] k = "file_id" -> file_id(idx)
                            [] k = "file_url" -> file_url(idx)
                            [] k = "view_url" -> view_url(idx)
                            [] OTHER -> marking_scheme]
    /\ calls' = [calls EXCEPT !.generate = @ + 1]
    /\ pc' = "done"
    /\ UNCHANGED <<request, idx, marking_scheme, markdown_content, disk,
                   tmp_path, results>>

----------------------------------------------------------------------------
(* Handlers without an upload                                               *)

\* variant: the retrieval handlers answer failures like the other handlers
ExceptStatus_always_500(o) == 500

\* status of the HTTPException the handler's `except Exception` clause raises
ExceptStatus(o) == IF o \in RetrieveOps THEN 404 ELSE 500

\* An exception raised inside the try block of handler o, an
\* HTTPException(code) included, is caught by `except Exception`; the
\* response carries the status of that clause.
RaisedInTry(o, code) == ExceptStatus(o)

\* value of request_data.get(key, default)
GetParam(v, default) == IF v = JAbsent THEN default ELSE v

\* not isinstance(n, int) or n < 1 or n > 50   (a bool is an int)
BadNumberOfQuestions(num) ==
    ~(num.t \in {"int", "bool"}) \/ num.n < 1 \/ num.n > 50

\* The parameter checks at the head of the try block: the status and
\* detail of the HTTPException raised there, status 0 when they pass.
ParamCheck(o, p) ==
    IF o \in QuestionOps
    THEN IF ~IsOneOf(GetParam(p.difficulty, JStr(<<"medium">>)),
                     {"easy", "medium", "hard"})
         THEN [code |-> 400, detail |-> <<"Invalid difficulty level">>]
         ELSE IF ~IsOneOf(GetParam(p.questionTypes,
                                   JStr(<<"multiple_choice">>)),
                          {"multiple_choice", "structured", "mixed"})
         THEN [code |-> 400, detail |-> <<"Invalid question type">>]
         ELSE IF BadNumberOfQuestions(GetParam(p.numberOfQuestions, JInt(5)))
         THEN [code |-> 400,
               detail |-> <<"Number of questions must be 1-50">>]
         ELSE [code |-> 0, detail |-> <<>>]
    ELSE IF o \in ExtractOps /\ p.documents = <<>>
    THEN [code |-> 400, detail |-> <<"Invalid documents format">>]
    ELSE [code |-> 0, detail |-> <<>>]

\* keys the prompt reads from every document: doc['category'] or
\* doc['documentName'], and doc['markdown']
DocumentKeys(o) ==
    IF o \in ExtractOps THEN {"category", "markdown"}
    ELSE {"documentName", "markdown"}

\* building the prompt: the exception raised, <<>> when there is none
PromptError(o, p) ==
    IF o \in PlanOps /\ p.profile = "missing_key" THEN <<"KeyError">>
    ELSE IF o \in PlanOps /\ p.profile = "bad_score"
    THEN <<"could not convert string to float">>
    ELSE IF \E i \in 1..Len(p.documents) :
               ~(DocumentKeys(o) \subseteq p.documents[i])
    THEN <<"KeyError">>
    ELSE <<>>

\* the try block up to the generative call
ValidateParams ==
    /\ pc = "params"
    /\ op \in GenOps
    /\ LET c == ParamCheck(op, params)
           e == PromptError(op, params)
       IN IF c.code # 0
          THEN /\ Respond(RaisedInTry(op, c.code))
               /\ result' = [raised |-> TRUE, value |-> c.detail]
          ELSE IF e # <<>>
          THEN /\ Respond(ExceptStatus(op))
               /\ result' = [raised |-> TRUE, value |-> e]
          ELSE /\ pc' = "generate"
               /\ UNCHANGED <<status, result>>
    /\ UNCHANGED <<request, idx, marking_scheme, markdown_content, ai, locals,
                   disk, tmp_path, calls, results, body>>

\* required_sections / required_keys of the endpoint
required_keys_generation(o) ==
    CASE o \in ExtractOps -> {"personalDetails", "contactDetails",
                              "addressDetails", "employmentDetails"}
      [] o \in ContentOps -> {"topic", "content", "further_research",
                              "key_concepts"}
      [] o \in PlanOps    -> {"name", "description", "steps", "skills", "eta"}
      [] OTHER            -> {"text", "type", "correctAnswer", "explanation"}

\* variant: the key check lets every payload pass
HasRequiredKeys_unchecked(present, keys) == TRUE

\* all(key in payload for key in required_keys)
HasRequiredKeys(present, keys) == keys \subseteq present

\* A question of the parsed array is [jt, has, obj]: jt its JSON type, has
\* the names for which `name in q` is true (the keys of an object, the
\* elements of a list, the substrings of a string), obj the object.
QObj(obj)      == [jt |-> "obj", has |-> DOMAIN obj, obj |-> obj]
QOther(jt, has) == [jt |-> jt, has |-> has, obj |-> <<>>]

\* the for loop over the questions: the exception raised, <<>> when none
RECURSIVE QuestionsError(_, _)
QuestionsError(questions, i) ==
    IF i > Len(questions) THEN <<>>
    ELSE LET q == questions[i]
         IN IF q.jt \in {"int", "null"}
            THEN <<"argument is not iterable">>
            ELSE IF ~HasRequiredKeys(q.has, required_keys_generation(
                                                "main.generate_assessment_questions_v1"))
            THEN <<"Question ", ToString(i), " missing required fields">>
            ELSE IF q.jt # "obj"
            THEN <<"indices must be integers">>
            ELSE IF Get(q.obj, "type", JAbsent) = JStr(<<"multiple_choice">>)
                    /\ "options" \notin DOMAIN q.obj
            THEN <<"Multiple choice question ", ToString(i),
                   " missing options">>
            ELSE QuestionsError(questions, i + 1)

\* What gemini_model.generate_content(prompt) does is an input: kind
\* "error", "no_json" (no {...} or [...] span in the text), "bad_json", or
\* "payload" (the span parses: to the object obj for a {...} span, to the
\* array list for a [...] span).  The try block from the call on.
GenTry(o, model) ==
    IF model.kind = "error"
    THEN [err |-> <<"generate_content failed">>, value |-> <<>>]
    ELSE IF model.kind = "no_json"
    THEN [err |-> <<"No JSON found in response">>, value |-> <<>>]
    ELSE IF model.kind = "bad_json"
    THEN [err |-> <<"JSONDecodeError">>, value |-> <<>>]
    ELSE IF o \in QuestionOps
    THEN [err |-> QuestionsError(model.list, 1), value |-> model.list]
    ELSE IF ~HasRequiredKeys(DOMAIN model.obj, required_keys_generation(o))
    THEN [err |-> <<"missing required fields">>, value |-> <<>>]
    ELSE [err |-> <<>>, value |-> model.obj]

MaxGenerated == 2

JList(items) == [t |-> "list", n |-> Len(items), s |-> items]

\* a question object as the prompt asks for it; options = JAbsent leaves
\* the key out
ModelQuestion(type, options) ==
    LET keys == {"text", "type", "correctAnswer", "explanation", "difficulty"}
                  \cup (IF options = JAbsent THEN {} ELSE {"options"})
    IN [k \in keys |->
          CASE k = "text" -> JStr(<<"What is a heap?">>)
            [] k = "type" -> type
            [] k = "correctAnswer" -> JInt(1)
            [] k = "explanation" -> JStr(<<"A heap is a tree">>)
            [] k = "difficulty" -> JStr(<<"easy">>)
            [] OTHER -> options]

\* elements the model may put into the question array
GeneratedQuestions ==
    {QObj(ModelQuestion(JStr(<<"multiple_choice">>), o)) :
        o \in {JAbsent, JList(<<"A", "B">>), JNull}}
    \cup {QObj(ModelQuestion(JStr(<<"structured">>), JAbsent)),
          QObj(ModelQuestion(JStr(<<"Multiple_Choice">>), JAbsent)),
          QObj(ModelQuestion(JNull, JAbsent)),
          QObj(Without(ModelQuestion(JStr(<<"structured">>), JAbsent),
                       "explanation")),
          QObj(Without(ModelQuestion(JStr(<<"multiple_choice">>),
                                     JList(<<"A", "B">>)), "type")),
          QOther("str", {"text", "type", "correctAnswer", "explanation"}),
          QOther("list", {"text"}),
          QOther("int", {})}

\* a complete object answer for an endpoint, with one key nobody asked for
ModelObject(o) ==
    [k \in required_keys_generation(o) \cup {"notes"} |-> JStr(<<k>>)]

\* what the generative provider may do on the prompt of operation o
GenOutcomes(o) ==
    {[kind |-> k, obj |-> <<>>, list |-> <<>>] :
        k \in {"error", "no_json", "bad_json"}}
    \cup (IF o \in QuestionOps
          THEN {[kind |-> "payload", obj |-> <<>>, list |-> l] :
                  l \in SeqsUpTo(GeneratedQuestions, MaxGenerated)}
          ELSE {[kind |-> "payload", obj |-> ModelObject(o), list |-> <<>>],
                [kind |-> "payload", obj |-> [k \in {"notes"} |-> JNull],
                 list |-> <<>>],
                [kind |-> "payload",
                 obj |-> [k \in required_keys_generation(o) |-> JNull],
                 list |-> <<>>]}
               \cup {[kind |-> "payload", obj |-> Without(ModelObject(o), k),
                      list |-> <<>>] : k \in required_keys_generation(o)})

\* the generative call, the parse, the key check and the response
GenerateAndRespond ==
    /\ pc = "generate"
    /\ op \in GenOps
    /\ \E model \in GenOutcomes(op) :
         LET t == GenTry(op, model)
         IN /\ ai' = model
            /\ IF t.err # <<>>
               THEN /\ status' = ExceptStatus(op)
                    /\ result' = [raised |-> TRUE, value |-> t.err]
                    /\ UNCHANGED body
               ELSE /\ status' = 200
                    /\ result' = [raised |-> FALSE, value |-> t.value]
                    /\ body' = t.value
    /\ calls' = [calls EXCEPT !.generate = @ + 1]
    /\ pc' = "done"
    /\ UNCHANGED <<request, idx, marking_scheme, markdown_content, locals,
                   disk, tmp_path, results>>

\* client.files.get_signed_url(file_id) / client.files.retrieve(file_id):
\* the provider raises for an identifier it does not know and may fail for
\* one it knows.  get_document_info builds its response in the same step;
\* get_document without download redirects to the signed URL.
Lookup ==
    /\ pc = "lookup"
    /\ op \in RetrieveOps
    /\ calls' = IF op = "main.get_document_info"
                THEN [calls EXCEPT !.retrieve = @ + 1]
                ELSE [calls EXCEPT !.signed_url = @ + 1]
    /\ \E found \in (IF params.file_id = "file-unknown" THEN {FALSE}
                     ELSE BOOLEAN), built \in BOOLEAN :
         IF ~found \/ (op = "main.get_document_info" /\ ~built)
         THEN /\ Respond(ExceptStatus(op))
              /\ result' = [raised |-> TRUE,
                            value |-> IF found THEN <<"response not built">>
                                      ELSE <<"provider lookup failed">>]
              /\ UNCHANGED body
         ELSE IF op = "main.get_document_info"
         THEN /\ status' = 200
              /\ UNCHANGED result
              /\ body' = [k \in {"file_id", "filename", "purpose",
                                 "created_at", "object", "status_details",
                                 "size_bytes"} |->
                            IF k = "file_id" THEN JStr(<<params.file_id>>)
                            ELSE JStr(<<k>>)]
              /\ pc' = "done"
         ELSE IF op = "main.get_document" /\ ~params.download
         THEN /\ status' = 307
              /\ UNCHANGED result
              /\ body' = [k \in {"location"} |->
                            JStr(<<"https://signed/", params.file_id>>)]
              /\ pc' = "done"
         ELSE /\ pc' = IF op = "main.view_file" THEN "head" ELSE "get"
              /\ UNCHANGED <<status, body, result>>
    /\ UNCHANGED <<request, idx, marking_scheme, markdown_content, ai, locals,
                   disk, tmp_path, results>>

\* view_file: http_client.head(file_url.url); raise_for_status()
HttpHead ==
    /\ pc = "head"
    /\ calls' = [calls EXCEPT !.head = @ + 1]
    /\ \/ pc' = "get" /\ UNCHANGED <<status, result>>
       \/ /\ Respond(ExceptStatus(op))
          /\ result' = [raised |-> TRUE, value |-> <<"HEAD failed">>]
    /\ UNCHANGED <<request, idx, marking_scheme, markdown_content, ai, locals,
                   disk, tmp_path, results, body>>

\* http_client.get(file_url.url); raise_for_status(); the response
HttpGet ==
    /\ pc = "get"
    /\ calls' = [calls EXCEPT !.get = @ + 1]
    /\ \/ /\ status' = 200
          /\ body' = [k \in {"file_id", "content", "content_type"} |->
                        IF k = "file_id" THEN JStr(<<params.file_id>>)
                        ELSE JStr(<<k>>)]
          /\ pc' = "done"
          /\ UNCHANGED result
       \/ /\ Respond(ExceptStatus(op))
          /\ result' = [raised |-> TRUE, value |-> <<"GET failed">>]
          /\ UNCHANGED body
    /\ UNCHANGED <<request, idx, marking_scheme, markdown_content, ai, locals,
                   disk, tmp_path, results>>

Next ==
    \/ ValidateRequest
    \/ SaveUpload
    \/ FilesUpload
    \/ GetSignedUrl
    \/ OcrProcess
    \/ UploadRespond
    \/ ProcessFileReturn
    \/ CollectResult
    \/ VerifyAndRespond
    \/ AssessAndRespond
    \/ ValidateParams
    \/ GenerateAndRespond
    \/ Lookup
    \/ HttpHead
    \/ HttpGet

Spec == Init /\ [][Next]_vars

----------------------------------------------------------------------------
(* Properties of the mark consistency check (SpecAssess)                    *)

Verified == JStr(<<"Verified">>)
NotPerformed == JStr(<<"Not performed due to error">>)

Returned == op = "assess_submitted_assignment" /\ pc = "returned"

\* sum of one field over the entries, a missing field counting as 0
RECURSIVE SumField(_, _)
SumField(entries, f) ==
    IF entries = <<>> THEN 0
    ELSE (IF Head(entries)[f].t = "int" THEN Head(entries)[f].n ELSE 0)
         + SumField(Tail(entries), f)

\* nearest integer to num / den (den > 0), exact halves to the even neighbour
RoundHalfEven(num, den) ==
    LET q == num \div den
        r == num % den
    IN IF 2 * r > den \/ (2 * r = den /\ q % 2 = 1) THEN q + 1 ELSE q

\* round(100 * sum awarded / sum max), or 0 when the sum of max is not positive
RecomputedPercentage(details) ==
    LET awarded  == SumField(details.entries, "awarded")
        possible == SumField(details.entries, "max")
    IN IF possible > 0 THEN RoundHalfEven(100 * awarded, possible) ELSE 0

\* C1 as stated: every returned assessment object says "Verified" exactly
\* when the percentage recomputed from its own assessment_details equals its
\* own marks_percentage.
C1_VerifiedIffRecomputed ==
    (Returned /\ ~result.raised) =>
        ((result.value["mark_consistency_check"] = Verified)
         <=> PyEqInt(RecomputedPercentage(result.value["assessment_details"]),
                     result.value["marks_percentage"]))

\* C1 amended: an assessment object returned after the check ran says
\* "Verified" exactly when the calculated_percentage of that run equals its
\* marks_percentage; the object returned after a failure says
\* "Not performed due to error" (although its percentage 0 matches its
\* empty assessment_details).
C1_VerifiedIffCalculated ==
    (Returned /\ ~result.raised) =>
        /\ locals.checked =>
             ((result.value["mark_consistency_check"] = Verified)
              <=> PyEqInt(locals.calculated_percentage,
                          result.value["marks_percentage"]))
        /\ ~locals.checked =>
             /\ result.value["mark_consistency_check"] = NotPerformed
             /\ PyEqInt(RecomputedPercentage(
                            result.value["assessment_details"]),
                        result.value["marks_percentage"])

\* C1 witness: a run of the check that ends in "Verified" on real marks
C1_Witness ==
    /\ Returned /\ locals.checked /\ locals.total_possible > 0
    /\ result.value["mark_consistency_check"] = Verified
    /\ Len(ai.obj["assessment_details"].entries) = 2
    /\ locals.calculated_percentage = 80

\* C2 as stated: total_awarded and total_possible are the sums of
\* awarded_marks and max_marks over all entries (missing counts as 0), and
\* calculated_percentage is round(100 * total_awarded / total_possible)
\* when total_possible > 0 and 0 otherwise.
C2_CalculatedIsRounded ==
    (Returned /\ locals.checked) =>
        /\ locals.total_awarded
             = SumField(ai.obj["assessment_details"].entries, "awarded")
        /\ locals.total_possible
             = SumField(ai.obj["assessment_details"].entries, "max")
        /\ locals.calculated_percentage
             = IF locals.total_possible > 0
               THEN RoundHalfEven(100 * locals.total_awarded,
                                  locals.total_possible)
               ELSE 0

\* C3: when the calculated percentage C differs from the reported R the
\* note is "Inconsistency detected: Calculated C% vs Reported R%", naming
\* both; 40 of 50 marks gives "Verified" for R = 80 and a message with both
\* 80 and 50 for R = 50.
C3_MismatchNamesBoth ==
    (Returned /\ locals.checked) =>
        LET R    == ai.obj["marks_percentage"]
            C    == locals.calculated_percentage
            note == result.value["mark_consistency_check"]
            one  == ai.obj["assessment_details"].entries
                      = <<Question(JInt(40), JInt(50))>>
        IN /\ ~PyEqInt(C, R) =>
                /\ note.t = "str"
                /\ note.s = <<"Inconsistency detected: Calculated ",
                              ToString(C), "% vs Reported ">>
                            \o Fmt(R) \o <<"%">>
                /\ Contains(note.s, ToString(C))
                /\ \A i \in 1..Len(Fmt(R)) : Contains(note.s, Fmt(R)[i])
           /\ (one /\ R = JInt(80)) => note = Verified
           /\ (one /\ R = JInt(50)) =>
                Contains(note.s, "80") /\ Contains(note.s, "50")

\* C3 witness: 40 of 50 marks with a reported 50
C3_Witness ==
    /\ Returned /\ locals.checked
    /\ ai.obj["assessment_details"].entries = <<Question(JInt(40), JInt(50))>>
    /\ ai.obj["marks_percentage"] = JInt(50)
    /\ result.value["mark_consistency_check"] # Verified

\* C4: the check never changes what the model reported: every field of the
\* returned assessment other than mark_consistency_check and
\* marking_scheme_used, marks_percentage included, is the model's.
C4_ReportedUntouched ==
    (Returned /\ locals.checked) =>
        /\ DOMAIN result.value
             = DOMAIN ai.obj \cup {"mark_consistency_check",
                                   "marking_scheme_used"}
        /\ \A k \in DOMAIN ai.obj \ {"mark_consistency_check",
                                     "marking_scheme_used"} :
               result.value[k] = ai.obj[k]

\* C4 witness: a mismatch was flagged and the reported value is still there
C4_Witness ==
    /\ Returned /\ locals.checked
    /\ result.value["mark_consistency_check"] # Verified
    /\ locals.calculated_percentage = 80
    /\ result.value["marks_percentage"] = JInt(50)

\* the ways the try body can fail, read off the model's answer
SummationFails(details) ==
    \/ details.t # "obj"
    \/ \E i \in 1..Len(details.entries) :
          \/ details.entries[i].t # "obj"
          \/ details.entries[i].awarded.t \notin {"int", "bool", "absent"}
          \/ details.entries[i].max.t \notin {"int", "bool", "absent"}

AssessmentFails(gemini) ==
    \/ gemini.kind \in {"error", "no_json", "bad_json"}
    \/ ~(required_keys_assessment \subseteq DOMAIN gemini.obj)
    \/ SummationFails(gemini.obj["assessment_details"])

\* C10: assess_submitted_assignment never raises; a failure of the
\* generative call, of extraction or parsing, of the required-key check or
\* of the mark summation yields the fixed failed assessment object, which
\* contains every required key.
C10_FailureYieldsFailedObject ==
    Returned =>
        /\ ~result.raised
        /\ AssessmentFails(ai) =>
             /\ required_keys_assessment \subseteq DOMAIN result.value
             /\ result.value["is_correct_module"] = JBool(FALSE)
             /\ result.value["confidence_assessment_score"] = JInt(0)
             /\ result.value["total_possible_marks"] = JInt(0)
             /\ result.value["marks_achieved"] = JInt(0)
             /\ result.value["marks_percentage"] = JInt(0)
             /\ result.value["assessment_details"].entries = <<>>
             /\ result.value["mark_consistency_check"] = NotPerformed

\* C10 witness: the summation met a non-numeric mark
C10_Witness ==
    /\ Returned /\ ai.kind = "object"
    /\ required_keys_assessment \subseteq DOMAIN ai.obj
    /\ SummationFails(ai.obj["assessment_details"])
    /\ result.value["mark_consistency_check"] = NotPerformed

----------------------------------------------------------------------------
(* Properties of the request handlers (Spec)                                *)

Done == pc = "done"

\* the AI step of a verification request has run
VerifyRan == op \in VerifyOps /\ Done /\ ai.kind # "none"

\* the ways the verification try body can fail, read off the model's answer
VerificationFails(service, model) ==
    \/ model.kind \in {"error", "no_json", "bad_json"}
    \/ model.jt # "obj"
    \/ ~(required_keys_verification(service) \subseteq DOMAIN model.obj)

\* C5: every result of verify_document_category (main.py) called with an
\* allow-listed category carries a correct_category from the five fixed
\* categories: a suggestion outside the list is replaced by the caller's
\* category, and so does the failure fallback.
C5_CorrectCategoryValid ==
    (VerifyRan /\ ServiceOf(op) = "main") =>
        /\ label \in VALID_CATEGORIES
        /\ IsOneOf(result.value["correct_category"], VALID_CATEGORIES)
        /\ VerificationFails("main", ai) =>
             result.value["correct_category"] = JStr(<<label>>)
        /\ (~VerificationFails("main", ai)
            /\ ~IsOneOf(ai.obj["correct_category"], VALID_CATEGORIES)) =>
             result.value["correct_category"] = JStr(<<label>>)
        /\ (~VerificationFails("main", ai)
            /\ IsOneOf(ai.obj["correct_category"], VALID_CATEGORIES)) =>
             result.value["correct_category"] = ai.obj["correct_category"]

\* C5 witness: the model suggested a category outside the list
C5_Witness ==
    /\ VerifyRan /\ ServiceOf(op) = "main"
    /\ ~VerificationFails("main", ai)
    /\ ai.obj["correct_category"] = JStr(<<"Bank Statement">>)
    /\ result.value["correct_category"] = JStr(<<label>>)

SomeUnsupportedType == \E i \in 1..Len(files) : files[i] \notin valid_types

AllowList(o) == IF o \in VerifyOps THEN VALID_CATEGORIES ELSE VALID_MODULES

\* C7: a category or module gate lets a label pass only when it is exactly
\* a member of its allow-list; any other label ends in status 400 with no
\* temp file created and no OCR or generative call made.
C7_GateExact ==
    (op \in VerifyOps \cup AssessOps) =>
        /\ (pc # "gates" /\ status # 400) => label \in AllowList(op)
        /\ label \notin AllowList(op) =>
             /\ disk = {} /\ tmp_path = <<>> /\ calls = NoCalls
             /\ pc \in {"gates", "done"}
             /\ Done => status = 400

\* C7 witness: "proof of identity" in lower case was rejected
C7_Witness ==
    /\ op = "main.unified_ocr" /\ Done
    /\ label = "proof of identity" /\ files = <<"application/pdf">>
    /\ status = 400

\* C8 as stated: after a call of process_file or upload_file ends, by
\* return or by an exception at any step, no temp file it created remains.
C8_NoTempFileRemains == Done => disk = {}

\* C9: in the verification flow, when OCR succeeded and the AI step fails
\* (provider error, unparsable output, missing required key),
\* verify_document_category does not raise but returns verified = false,
\* confidence = 0 and a reason naming the failure, and the endpoint answers
\* 200 with the full response body.
C9_FailedVerificationAnswered ==
    (VerifyRan /\ VerificationFails(ServiceOf(op), ai)) =>
        /\ ~result.raised
        /\ result.value["verified"] = JBool(FALSE)
        /\ result.value["confidence"] = JInt(0)
        /\ result.value["reason"].s[1] = "Verification failed: "
        /\ Len(result.value["reason"].s) > 1
        /\ status = 200
        /\ {"category", "filename", "content_type", "ocr_type", "pages",
            "verification"} \subseteq DOMAIN body
        /\ ServiceOf(op) = "main" =>
             {"markdown", "file_id", "file_url", "view_url"}
                \subseteq DOMAIN body
        /\ body["verification"] = result.value

\* C9 witness: the model's answer lacked a required key
C9_Witness ==
    /\ VerifyRan /\ ai.kind = "value" /\ ai.jt = "obj"
    /\ "reason" \notin DOMAIN ai.obj
    /\ status = 200
    /\ body["verification"]["confidence"] = JInt(0)

\* C11: in general_ocr a batch with at least one unsupported content type,
\* at whatever position, is rejected as a whole with status 400 before
\* process_file is called for any file: no temp file is created, no
\* provider is called and no entry is collected.
C11_BatchRejectedWhole ==
    (op \in BatchOps /\ SomeUnsupportedType) =>
        /\ disk = {} /\ tmp_path = <<>> /\ calls = NoCalls
        /\ results = <<>> /\ idx = 1
        /\ pc \in {"gates", "done"}
        /\ Done => (status = 400 /\ body = <<>>)

\* C11 witness: the invalid file is the last of the batch
C11_Witness ==
    /\ op = "main.general_ocr" /\ Done
    /\ files = <<"application/pdf", "text/plain">>
    /\ status = 400

EntryKeys == {"documentName", "markdown", "file_id", "file_url", "view_url"}

\* e is the entry of the i-th uploaded file
IsEntryOf(e, i) ==
    /\ DOMAIN e = EntryKeys
    /\ e["documentName"] = filename(i)
    /\ e["markdown"].t = "str"
    /\ e["file_id"] = file_id(i)
    /\ e["file_url"] = file_url(i)
    /\ e["view_url"] = view_url(i)

\* C12: a successful general_ocr response is an array with exactly one
\* entry per uploaded file, in upload order, the i-th entry carrying
\* documentName, markdown, file_id, file_url and view_url of the i-th file
\* (its markdown being the OCR text obtained for that file); when the
\* request fails, at whatever file, the response carries no entry.
C12_OneEntryPerFile ==
    /\ [](op \in BatchOps =>
            /\ Len(results) <= Len(files)
            /\ \A i \in 1..Len(results) : IsEntryOf(results[i], i)
            /\ (Done /\ status = 200) =>
                 (body = results /\ Len(body) = Len(files))
            /\ (Done /\ status # 200) =>
                 (body = <<>> /\ status \in {400, 500}))
    /\ [][(op \in BatchOps /\ results' # results) =>
            /\ idx = Len(results) + 1
            /\ Len(results') = idx
            /\ SubSeq(results', 1, Len(results)) = results
            /\ results'[idx]["markdown"] = JStr(markdown_content)]_vars

\* C12 witness: a PNG and a PDF were both processed
C12_Witness ==
    /\ op = "main.general_ocr" /\ Done /\ status = 200
    /\ files = <<"image/png", "application/pdf">>
    /\ Len(body) = 2
    /\ body[1]["file_id"] # body[2]["file_id"]

AssessV2Ops == {"main.assess_assignment_v2", "ocr_api.assess_assignment_v2"}

\* the form values that are JSON texts
WellFormedJSON == {"null", "{}", "{\"q1\": 10}"}

\* the request was turned away at the gates with status 400
RejectedAtGates ==
    /\ disk = {} /\ tmp_path = <<>> /\ calls = NoCalls
    /\ pc \in {"gates", "done"}
    /\ Done => status = 400

\* C13 as stated: in the v2 assessment endpoint every marking_scheme form
\* value that is not well-formed JSON is rejected with status 400 before
\* process_file runs: no temp file, no OCR call, no generative call.
C13_MalformedSchemeRejected ==
    (op \in AssessV2Ops /\ form_scheme # "none"
     /\ form_scheme \notin WellFormedJSON) => RejectedAtGates

\* C13 amended: a non-empty marking_scheme form value that is not
\* well-formed JSON is rejected with status 400 before process_file runs;
\* an empty value is taken as "no marking scheme" and the request proceeds.
C13_NonEmptyMalformedSchemeRejected ==
    /\ (op \in AssessV2Ops /\ form_scheme \notin {"none", ""}
        /\ form_scheme \notin WellFormedJSON) => RejectedAtGates
    /\ (op \in AssessV2Ops /\ form_scheme = "" /\ pc # "gates"
        /\ label \in VALID_MODULES /\ ~SomeUnsupportedType
        /\ ServiceOf(op) = "main") =>
          /\ status # 400
          /\ marking_scheme.t = "none"

\* C13 witness: the value "{oops" was rejected on an otherwise valid request
C13_Witness ==
    /\ op = "main.assess_assignment_v2" /\ Done
    /\ form_scheme = "{oops" /\ label = "Machine Learning"
    /\ files = <<"application/pdf">>
    /\ status = 400 /\ calls = NoCalls

\* C14: no response with status 200 carries a generative payload that
\* lacks a required top-level key of its endpoint: the verification object
\* (verified, confidence, reason, correct_category; in the ocr.py service,
\* whose list is its own, missing_fields in place of correct_category), the
\* extraction object (the four detail sections), the assessment object
\* (the five assessment keys), every question of the question array (text,
\* type, correctAnswer, explanation), the content object (topic, content,
\* further_research, key_concepts) and the plan object (name, description,
\* steps, skills, eta).
C14_SuccessHasRequiredKeys ==
    (Done /\ status = 200) =>
        /\ (op \in VerifyOps /\ ServiceOf(op) = "main") =>
             {"verified", "confidence", "reason", "correct_category"}
                \subseteq DOMAIN body["verification"]
        /\ (op \in VerifyOps /\ ServiceOf(op) = "ocr") =>
             {"verified", "confidence", "reason", "missing_fields"}
                \subseteq DOMAIN body["verification"]
        /\ op \in AssessOps =>
             {"is_correct_module", "confidence_assessment_score",
              "marks_percentage", "overall_feedback", "assessment_details"}
                \subseteq DOMAIN body["assessment"]
        /\ op \in ExtractOps =>
             {"personalDetails", "contactDetails", "addressDetails",
              "employmentDetails"} \subseteq DOMAIN body
        /\ op \in QuestionOps =>
             \A i \in 1..Len(body) :
                /\ body[i].jt = "obj"
                /\ {"text", "type", "correctAnswer", "explanation"}
                      \subseteq DOMAIN body[i].obj
        /\ op \in ContentOps =>
             {"topic", "content", "further_research", "key_concepts"}
                \subseteq DOMAIN body
        /\ op \in PlanOps =>
             {"name", "description", "steps", "skills", "eta"}
                \subseteq DOMAIN body

\* C14 witness: the plan the model returned had no eta, and the request
\* did not succeed
C14_Witness ==
    /\ op \in PlanOps /\ Done
    /\ ai.kind = "payload" /\ DOMAIN ai.obj # {}
    /\ "eta" \notin DOMAIN ai.obj /\ "name" \in DOMAIN ai.obj
    /\ status = 500

\* C15: no external operation is retried: within one request the provider
\* upload, the signed-URL request and the OCR call are each made at most
\* once per file, the generative provider (like the metadata lookup and
\* the HEAD and GET of the content) at most once, and once a call has
\* failed, which ends the request with an error status, no further call is
\* made.
C15_NoRetry ==
    /\ [](/\ calls.upload <= idx /\ calls.signed_url <= idx
          /\ calls.ocr <= idx
          /\ (idx <= Len(files) \/ files = <<>>)
          /\ calls.generate <= 1 /\ calls.retrieve <= 1
          /\ calls.head <= 1 /\ calls.get <= 1)
    /\ [][status >= 400 => calls' = calls]_vars
    /\ [][\A c \in DOMAIN calls : calls'[c] <= calls[c] + 1]_vars

\* C15 witness: the OCR call of the second file failed after one upload,
\* one signed-URL request and one OCR call per file
C15_Witness ==
    /\ op = "main.general_ocr" /\ Done /\ status = 500
    /\ Len(files) = 2 /\ idx = 2
    /\ calls.upload = 2 /\ calls.signed_url = 2 /\ calls.ocr = 2

\* C16: get_document, get_document_info and view_file answer 404 when the
\* provider does not know the file identifier, and every exception raised
\* inside them (signed-URL lookup, metadata retrieval, building the
\* response, HEAD or GET of the content) is answered with 404, never with
\* a success status; a response other than 404 is a 200, or the redirect
\* of get_document, reached after every call of the handler succeeded.
C16_RetrievalFailuresAre404 ==
    (op \in RetrieveOps /\ Done) =>
        /\ params.file_id = "file-unknown" => status = 404
        /\ result.raised => status = 404
        /\ status \in {200, 307, 404}
        /\ status # 404 =>
             /\ ~result.raised
             /\ status = 307 <=> (op = "main.get_document" /\ ~params.download)
             /\ calls.signed_url = (IF op = "main.get_document_info"
                                    THEN 0 ELSE 1)
             /\ calls.retrieve = (IF op = "main.get_document_info"
                                  THEN 1 ELSE 0)
             /\ calls.head = (IF op = "main.view_file" THEN 1 ELSE 0)
             /\ calls.get = (IF op = "main.view_file"
                                \/ (op = "main.get_document"
                                    /\ params.download)
                             THEN 1 ELSE 0)

\* C16 witness: the provider did not know the identifier
C16_Witness ==
    /\ op = "main.get_document_info" /\ Done
    /\ params.file_id = "file-unknown"
    /\ calls.retrieve = 1 /\ status = 404

\* C17 as stated: the category field of a successful verify-document
\* response, and the module field of a successful assessment response,
\* equal the label the caller supplied, whatever the verification says.
C17_LabelEchoed ==
    (Done /\ status = 200) =>
        /\ op \in VerifyOps => body["category"] = JStr(<<label>>)
        /\ op \in AssessOps => body["module"] = JStr(<<label>>)

\* C17 amended: the module field of a successful assessment response and
\* the category field of a successful ocr.py verify-document response equal
\* the caller's label; the category field of a successful main.py
\* verification response (unified_ocr, ocr_document, ocr_image) equals the
\* correct_category of its verification object: the category the model
\* named when its answer is valid and names one of the five categories,
\* the caller's label otherwise.
C17_CategoryIsCorrectCategory ==
    (Done /\ status = 200) =>
        /\ op \in AssessOps => body["module"] = JStr(<<label>>)
        /\ (op \in VerifyOps /\ ServiceOf(op) = "ocr") =>
             body["category"] = JStr(<<label>>)
        /\ (op \in VerifyOps /\ ServiceOf(op) = "main") =>
             /\ body["category"] = body["verification"]["correct_category"]
             /\ body["category"] =
                  IF ~VerificationFails("main", ai)
                     /\ IsOneOf(ai.obj["correct_category"], VALID_CATEGORIES)
                  THEN ai.obj["correct_category"]
                  ELSE JStr(<<label>>)

\* C17 witness: the caller said Proof of Identity, the model Proof of Income
C17_Witness ==
    /\ op = "main.unified_ocr" /\ Done /\ status = 200
    /\ label = "Proof of Identity"
    /\ body["category"] = JStr(<<"Proof of Income">>)

\* the request parameters the claim calls invalid
InvalidParams(o, p) ==
    \/ /\ o \in QuestionOps
       /\ \/ /\ p.difficulty # JAbsent
             /\ p.difficulty \notin {JStr(<<"easy">>), JStr(<<"medium">>),
                                     JStr(<<"hard">>)}
          \/ /\ p.questionTypes # JAbsent
             /\ p.questionTypes \notin {JStr(<<"multiple_choice">>),
                                        JStr(<<"structured">>),
                                        JStr(<<"mixed">>)}
          \/ /\ p.numberOfQuestions # JAbsent
             /\ ~(p.numberOfQuestions.t = "int"
                  /\ p.numberOfQuestions.n \in 1..50)
    \/ o \in ExtractOps /\ p.documents = <<>>

\* C18 as stated: a request whose parameters fail the handler's validation
\* (question generation v1 / v2: difficulty, questionTypes,
\* numberOfQuestions; extract_details: empty document list) is answered
\* with status 400 and no generative-provider call is made.
C18_InvalidParamsRejected ==
    InvalidParams(op, params) =>
        /\ calls.generate = 0
        /\ Done => status = 400

\* C19: within one OCR-backed request the external calls are made in the
\* order provider upload, signed-URL request, OCR call, generative call,
\* each only after every earlier one succeeded; the temp file exists from
\* the upload to the OCR call and is gone before the generative call; the
\* generative provider is never called when process_file failed.
C19_CallOrder ==
    /\ [](op \in Ops =>
            /\ calls.signed_url <= calls.upload
            /\ calls.ocr <= calls.signed_url
            /\ calls.generate <= calls.ocr
            /\ calls.upload <= idx
            /\ pc = "signed_url" => calls.upload = idx
            /\ pc = "ocr" => (calls.upload = idx /\ calls.signed_url = idx)
            /\ pc \in {"upload", "signed_url", "ocr"} =>
                 (tmp_path = TempName(idx) /\ tmp_path \in disk)
            /\ calls.generate > 0 =>
                 /\ disk = {}
                 /\ calls.upload = 1 /\ calls.signed_url = 1 /\ calls.ocr = 1
            /\ (Done /\ status = 500) => calls.generate = 0)
    /\ [][(op \in Ops /\ calls'.upload > calls.upload) =>
            (status = 0 /\ calls.upload = idx - 1
             /\ calls.signed_url = idx - 1 /\ calls.ocr = idx - 1)]_vars
    /\ [][(op \in Ops /\ calls'.signed_url > calls.signed_url) =>
            (status = 0 /\ calls.upload = idx /\ calls.ocr = idx - 1)]_vars
    /\ [][(op \in Ops /\ calls'.ocr > calls.ocr) =>
            (status = 0 /\ calls.signed_url = idx /\ tmp_path \in disk)]_vars
    /\ [][(op \in Ops /\ calls'.generate > calls.generate) =>
            (status = 0 /\ calls.ocr = 1 /\ disk = {}
             /\ pc = "handler")]_vars

\* C19 witness: an assessment request went through all four calls
C19_Witness ==
    /\ op = "main.assess_assignment_v2" /\ Done /\ status = 200
    /\ calls.upload = 1 /\ calls.signed_url = 1 /\ calls.ocr = 1
    /\ calls.generate = 1 /\ disk = {}

\* a multiple_choice question without an options list
LacksOptionsList(q) ==
    /\ q.jt = "obj"
    /\ Get(q.obj, "type", JAbsent) = JStr(<<"multiple_choice">>)
    /\ Get(q.obj, "options", JAbsent).t # "list"

\* C20 as stated: every multiple_choice question of a successful
\* question-generation response (v1 and v2) carries an options list, and a
\* model answer containing a multiple_choice question without one makes
\* the whole request fail.
C20_MultipleChoiceHasOptions ==
    (op \in QuestionOps /\ Done) =>
        /\ status = 200 =>
             \A i \in 1..Len(body) : ~LacksOptionsList(body[i])
        /\ (ai.kind = "payload"
            /\ \E i \in 1..Len(ai.list) : LacksOptionsList(ai.list[i])) =>
             status = 500

----------------------------------------------------------------------------
(* Further properties of the mark consistency check (SpecAssess)            *)

\* "Inconsistency detected: Calculated C% vs Reported R%" for some C and R
IsInconsistencyNote(note) ==
    /\ note.t = "str"
    /\ Len(note.s) >= 5
    /\ note.s[1] = "Inconsistency detected: Calculated "
    /\ note.s[2] \in {ToString(c) : c \in -1300..1300}
    /\ note.s[3] = "% vs Reported "
    /\ note.s[Len(note.s)] = "%"

\* C26: the mark_consistency_check of every returned assessment is written
\* by the server and has one of three forms: "Verified", "Inconsistency
\* detected: Calculated C% vs Reported R%" or "Not performed due to error";
\* a note the model wrote under that key never reaches the caller.
C26_NoteIsServerMade ==
    (Returned /\ ~result.raised) =>
        LET note == result.value["mark_consistency_check"]
        IN /\ \/ note = Verified
              \/ note = NotPerformed
              \/ IsInconsistencyNote(note)
           /\ note = IF locals.checked
                     THEN mark_consistency_check(
                              locals.calculated_percentage,
                              ai.obj["marks_percentage"])
                     ELSE NotPerformed
           /\ note # JStr(<<"Marks add up">>)

\* C26 witness: the model wrote its own note and the check replaced it
C26_Witness ==
    /\ Returned /\ locals.checked
    /\ "mark_consistency_check" \in DOMAIN ai.obj
    /\ ai.obj["mark_consistency_check"] = JStr(<<"Marks add up">>)
    /\ IsInconsistencyNote(result.value["mark_consistency_check"])

\* 100 * awarded / possible lies exactly halfway between two integers
ExactHalf(awarded, possible) ==
    possible > 0 /\ (200 * awarded) % (2 * possible) = possible

\* C29 as stated: when 100 * total_awarded / total_possible is exactly
\* halfway between two integers, calculated_percentage is the even
\* neighbour (12 for 1 of 8, 38 for 3 of 8), and a reported half-up value
\* that differs from it is flagged instead of "Verified".
C29_HalfGoesToEven ==
    (Returned /\ locals.checked
       /\ ExactHalf(locals.total_awarded, locals.total_possible)) =>
        LET even == RoundHalfEven(100 * locals.total_awarded,
                                  locals.total_possible)
            up   == (100 * locals.total_awarded) \div locals.total_possible + 1
        IN /\ even % 2 = 0
           /\ locals.calculated_percentage = even
           /\ (ai.obj["marks_percentage"] = JInt(up) /\ up # even) =>
                IsInconsistencyNote(result.value["mark_consistency_check"])

----------------------------------------------------------------------------
(* SpecPrompt: the prompts built from the OCR text.  The OCR text is a     *)
(* blob of md.len characters; a prompt is the sequence of its parts, a     *)
(* part being fixed text, a formatted value, or the characters             *)
(* [from, to) of the blob.                                                 *)

Text(s) == [kind |-> "text", s |-> s, from |-> 0, to |-> 0]

\* markdown_content[:15000]
truncated_content(md) ==
    [kind |-> "blob", s |-> "markdown_content", from |-> 0,
     to |-> IF md.len < 15000 THEN md.len ELSE 15000]

\* `if marking_scheme:` of the prompt and `if scheme_dict:` of the response
Truthy(scheme) == scheme.t = "obj" /\ scheme.size > 0

\* the section appended to the assessment prompt after the instructions
SchemeSection(scheme) ==
    IF Truthy(scheme)
    THEN <<Text("MARKING SCHEME PROVIDED:"),
           [kind |-> "scheme", s |-> "json.dumps(marking_scheme, indent=2)",
            from |-> 0, to |-> 0]>>
    ELSE <<Text("STANDARD ASSESSMENT CRITERIA:")>>

\* prompt of verify_document_category, per service
VerificationPrompt(service, category, md) ==
    IF service = "main"
    THEN <<Text("Category: "), Text(category),
           Text("Document Content: "), truncated_content(md),
           Text("Verify if the document matches the specified category: "),
           Text(category),
           Text("Only return a JSON response with these keys"),
           Text("Category Requirements:"),
           Text("Document Content:"), truncated_content(md)>>
    ELSE <<Text("TASK: ... determine if it matches a document of category "),
           Text(category),
           Text("VERIFICATION CRITERIA:"),
           Text("DOCUMENT CONTENT:"), truncated_content(md),
           Text("<!-- Truncated to 15k chars -->"),
           Text("RESPONSE FORMAT: Return ONLY a JSON object")>>

\* prompt of assess_submitted_assignment (the definition bound last)
AssessmentPrompt(module, md, scheme) ==
    <<Text("INSTRUCTIONS: 1. Verify if the content matches the module: "),
      Text(module)>>
    \o SchemeSection(scheme)
    \o <<Text("MODULE: "), Text(module),
         Text("ASSIGNMENT CONTENT:"), truncated_content(md),
         Text("RESPONSE FORMAT (JSON):")>>

PromptOps ==
    {"main.verify_document_category", "ocr.verify_document_category",
     "main.assess_submitted_assignment"}

InitPrompt ==
    /\ op \in PromptOps
    /\ pc = "prompt"
    /\ label \in IF op = "main.assess_submitted_assignment"
                 THEN VALID_MODULES ELSE VALID_CATEGORIES
    /\ files = <<"application/pdf">>
    /\ idx = 1
    /\ form_scheme = "none"
    /\ params = NoParams
    /\ marking_scheme \in IF op = "main.assess_submitted_assignment"
                          THEN Schemes ELSE {[t |-> "none", size |-> 0]}
    /\ markdown_content \in {[len |-> n] : n \in {0, 1, 14999, 15000, 15001,
                                                  20000, 40000}}
    /\ ai = <<>>
    /\ result = NoResult
    /\ locals = NoLocals
    /\ disk = {}
    /\ tmp_path = "unbound"
    /\ calls = NoCalls
    /\ results = <<>>
    /\ status = 0
    /\ body = <<>>

\* the f-string is evaluated: the prompt handed to the provider
BuildPrompt ==
    /\ op \in PromptOps
    /\ pc = "prompt"
    /\ result' =
         [raised |-> FALSE,
          value |->
            CASE op = "main.verify_document_category" ->
                   VerificationPrompt("main", label, markdown_content)
              [] op = "ocr.verify_document_category" ->
                   VerificationPrompt("ocr", label, markdown_content)
              [] OTHER ->
                   AssessmentPrompt(label, markdown_content, marking_scheme)]
    /\ pc' = "built"
    /\ UNCHANGED <<request, idx, marking_scheme, markdown_content, ai, locals,
                   disk, tmp_path, calls, results, status, body>>

SpecPrompt == InitPrompt /\ [][BuildPrompt]_vars

\* number of characters of the OCR text in a prompt
RECURSIVE BlobChars(_)
BlobChars(prompt) ==
    IF prompt = <<>> THEN 0
    ELSE (IF Head(prompt).kind = "blob"
          THEN Head(prompt).to - Head(prompt).from ELSE 0)
         + BlobChars(Tail(prompt))

\* C24 as stated: every prompt built for category verification or
\* assignment assessment contains at most 15,000 characters of the OCR text
\* in total, taken from the start of the text.
C24_AtMost15000OfBlob ==
    pc = "built" =>
        /\ BlobChars(result.value) <= 15000
        /\ \A i \in 1..Len(result.value) :
              result.value[i].kind = "blob" =>
                 /\ result.value[i].from = 0
                 /\ result.value[i].to <= markdown_content.len

----------------------------------------------------------------------------
(* Further properties of the request handlers (Spec)                        *)

\* C23 as stated: in a successful v2 assessment marking_scheme_used is true
\* exactly when the caller's scheme was inserted into the prompt as MARKING
\* SCHEME PROVIDED and is echoed as marking_scheme in the response, for
\* every well-formed marking_scheme value, {} and null included.
C23_UsedIffInsertedAndEchoed ==
    (Done /\ op \in AssessV2Ops /\ status = 200 /\ locals.checked) =>
        LET used     == body["assessment"]["marking_scheme_used"] = JBool(TRUE)
            inserted == SchemeSection(marking_scheme)[1]
                          = Text("MARKING SCHEME PROVIDED:")
            echoed   == "marking_scheme" \in DOMAIN body
        IN (used <=> inserted) /\ (used <=> echoed)

\* what a v2 request without a marking scheme returns as its assessment
AssessmentWithoutScheme(module, markdown, gemini) ==
    assess_submitted_assignment(
        module, markdown, SchemeDict("main.assess_assignment_v2", "none"),
        gemini).value

\* C27: the v1 assessment handler runs the second (marking-scheme)
\* definition of assess_submitted_assignment with no scheme: every v1
\* assessment object carries marking_scheme_used = false and equals what a
\* v2 request without a marking scheme returns for the same module, OCR
\* text and model answer.
C27_V1RunsSecondDefinition ==
    (Done /\ status = 200 /\ op \in AssessOps) =>
        /\ op = "main.assess_assignment_v1" =>
             /\ Get(body["assessment"], "marking_scheme_used", JAbsent)
                  = JBool(FALSE)
             /\ body["assessment"]
                  = AssessmentWithoutScheme(label, markdown_content, ai)
             /\ "marking_scheme" \notin DOMAIN body
        /\ (op = "main.assess_assignment_v2" /\ form_scheme = "none") =>
             /\ body["assessment"]
                  = AssessmentWithoutScheme(label, markdown_content, ai)
             /\ "marking_scheme" \notin DOMAIN body

\* C27 witness: a v1 request answered with a checked assessment
C27_Witness ==
    /\ Done /\ status = 200 /\ op = "main.assess_assignment_v1"
    /\ locals.checked
    /\ body["assessment"]["marking_scheme_used"] = JBool(FALSE)
    /\ body["assessment"]["mark_consistency_check"] = Verified

\* the module and media-type gates of an assessment or general-OCR request
PassesModuleAndMediaGates ==
    /\ op \in AssessOps => label \in VALID_MODULES
    /\ \A i \in 1..Len(files) : files[i] \in valid_types

\* C28 as stated: every request to the v1/v2 assessment and general-OCR
\* endpoints of ocr_api.py that passes the module and media-type gates ends
\* with status 500, and no OCR-provider call, generative call or temp-file
\* creation ever happens in that variant.
C28_GatedRequestsEnd500 ==
    ServiceOf(op) = "ocr_api" =>
        /\ calls = NoCalls /\ disk = {} /\ tmp_path = <<>>
        /\ (Done /\ PassesModuleAndMediaGates) => status = 500

\* C28 amended: such a request ends with status 500 when it passes the
\* module and media-type gates and, at the v2 endpoint, its marking_scheme
\* is absent, empty or parses as JSON; a v2 request that passes both gates
\* with a non-empty marking_scheme that does not parse ends with status
\* 400.  No OCR-provider call, generative call or temp-file creation ever
\* happens in that variant.
C28_UndefinedProcessFileEnds500 ==
    ServiceOf(op) = "ocr_api" =>
        /\ calls = NoCalls /\ disk = {} /\ tmp_path = <<>>
        /\ Done =>
             /\ status \in {400, 500}
             /\ status = 500 <=>
                  /\ PassesModuleAndMediaGates
                  /\ ~(op = "ocr_api.assess_assignment_v2"
                         /\ form_scheme \notin WellFormedJSON \cup {"none", ""})

\* C28 witness: a batch of two supported files sent to ocr_api's general_ocr
C28_Witness ==
    /\ Done /\ op = "ocr_api.general_ocr" /\ status = 500
    /\ Len(files) = 2 /\ PassesModuleAndMediaGates

----------------------------------------------------------------------------
(* SpecExtract: extraction of the JSON text from the model's answer.  The  *)
(* answer is a sequence of characters.                                     *)

MaxText == 4

\* characters of an answer: the delimiters, a newline, any other character
Alphabet == {"{", "}", "[", "]", "\n", "a"}

ExtractionSites ==
    {"main.assess_submitted_assignment", "main.generate_assessment_questions",
     "ocr.verify_document_category"}

\* the regular expression of each site and the flags passed to re.search
Pattern(o) ==
    CASE o = "main.assess_submitted_assignment" ->
           [open |-> "{", class |-> "[\\s\\S]", close |-> "}", flags |-> {}]
      [] o = "main.generate_assessment_questions" ->
           [open |-> "[", class |-> "[\\s\\S]", close |-> "]", flags |-> {}]
      [] OTHER ->
           [open |-> "{", class |-> ".", close |-> "}",
            flags |-> {"DOTALL"}]

\* [\s\S] matches every character; . matches a newline only under DOTALL
ClassMatches(c, p) ==
    p.class = "[\\s\\S]" \/ "DOTALL" \in p.flags \/ c # "\n"

\* variant: the repetition is lazy, the match ends at the nearest closing
\* delimiter
MatchEnd_lazy(text, s, p) ==
    IF text[s] # p.open THEN 0
    ELSE LET ends == {e \in (s + 1)..Len(text) :
                        /\ text[e] = p.close
                        /\ \A k \in (s + 1)..(e - 1) : ClassMatches(text[k], p)}
         IN IF ends = {} THEN 0
            ELSE CHOOSE e \in ends : \A f \in ends : e <= f

\* open class* close tried at position s: the repetition is greedy, so the
\* match ends at the farthest position the pattern can reach (0: no match)
MatchEnd(text, s, p) ==
    IF text[s] # p.open THEN 0
    ELSE LET ends == {e \in (s + 1)..Len(text) :
                        /\ text[e] = p.close
                        /\ \A k \in (s + 1)..(e - 1) : ClassMatches(text[k], p)}
         IN IF ends = {} THEN 0
            ELSE CHOOSE e \in ends : \A f \in ends : e >= f

\* re.search: the match at the leftmost position where the pattern matches
re_search(text, p) ==
    LET starts == {s \in 1..Len(text) : MatchEnd(text, s, p) # 0}
    IN IF starts = {} THEN [found |-> FALSE, start |-> 0, end |-> 0]
       ELSE LET s == CHOOSE x \in starts : \A y \in starts : x <= y
            IN [found |-> TRUE, start |-> s, end |-> MatchEnd(text, s, p)]

\* message of the ValueError raised when re.search returns None
NoJsonFound(o) ==
    IF o = "main.generate_assessment_questions"
    THEN <<"No valid JSON array found in response">>
    ELSE <<"No JSON found in Gemini response">>

InitExtract ==
    /\ op \in ExtractionSites
    /\ pc = "extract"
    /\ label = ""
    /\ files = <<>>
    /\ idx = 1
    /\ form_scheme = "none"
    /\ params = NoParams
    /\ marking_scheme = [t |-> "none", size |-> 0]
    /\ markdown_content = <<>>
    /\ ai \in {[kind |-> "text", text |-> t] : t \in SeqsUpTo(Alphabet, MaxText)}
    /\ result = NoResult
    /\ locals = NoLocals
    /\ disk = {}
    /\ tmp_path = "unbound"
    /\ calls = NoCalls
    /\ results = <<>>
    /\ status = 0
    /\ body = <<>>

\* json_match = re.search(pattern, response.text)
\* if not json_match: raise ValueError(...)
\* ... = json.loads(json_match.group())
\* value.loads lists the texts json.loads was called with.
ExtractJson ==
    /\ op \in ExtractionSites
    /\ pc = "extract"
    /\ LET json_match == re_search(ai.text, Pattern(op))
       IN result' =
            IF ~json_match.found
            THEN [raised |-> TRUE,
                  value |-> [err |-> NoJsonFound(op), loads |-> <<>>]]
            ELSE [raised |-> FALSE,
                  value |-> [err |-> <<>>,
                             loads |-> <<SubSeq(ai.text, json_match.start,
                                                json_match.end)>>]]
    /\ pc' = "extracted"
    /\ UNCHANGED <<request, idx, marking_scheme, markdown_content, ai, locals,
                   disk, tmp_path, calls, results, status, body>>

SpecExtract == InitExtract /\ [][ExtractJson]_vars

\* positions of a character in a text
Positions(text, c) == {i \in 1..Len(text) : text[i] = c}

OpeningDelimiter(o) ==
    IF o = "main.generate_assessment_questions" THEN "[" ELSE "{"

ClosingDelimiter(o) ==
    IF o = "main.generate_assessment_questions" THEN "]" ELSE "}"

\* C21: the extraction selects exactly the substring from the first opening
\* delimiter ('{', or '[' for question generation) to the last closing
\* delimiter ('}' or ']') of the text; when no opening delimiter is followed
\* by a closing delimiter the step fails with the "no JSON found" error and
\* json.loads is not called.
C21_FirstOpenToLastClose ==
    pc = "extracted" =>
        LET opens  == Positions(ai.text, OpeningDelimiter(op))
            closes == Positions(ai.text, ClosingDelimiter(op))
        IN IF \E i \in opens : \E j \in closes : i < j
           THEN LET first == CHOOSE i \in opens : \A k \in opens : i <= k
                    last  == CHOOSE j \in closes : \A k \in closes : j >= k
                IN /\ ~result.raised
                   /\ result.value.loads = <<SubSeq(ai.text, first, last)>>
           ELSE /\ result.raised
                /\ result.value.err = NoJsonFound(op)
                /\ result.value.loads = <<>>

\* C21 witness: an opening delimiter, a line break and two closing
\* delimiters; the span runs to the second one
C21_Witness ==
    /\ pc = "extracted" /\ op = "ocr.verify_document_category"
    /\ ai.text = <<"{", "\n", "}", "}">>
    /\ result.value.loads = <<ai.text>>

----------------------------------------------------------------------------
(* SpecPlan: the attributes generate_study_plan puts into its prompt.  A   *)
(* gap is a JSON number or a JSON string; a string is the sequence of its  *)
(* characters.                                                             *)

MaxAttributes == 6

\* code point of a character of a gap string
Ord(c) ==
    CASE c = "%" -> 37 [] c = "0" -> 48 [] c = "1" -> 49 [] c = "3" -> 51
      [] c = "5" -> 53 [] c = "9" -> 57 [] OTHER -> 97

\* s.strip('%')
RECURSIVE StripPercent(_)
StripPercent(s) ==
    IF s = <<>> THEN s
    ELSE IF Head(s) = "%" THEN StripPercent(Tail(s))
    ELSE IF s[Len(s)] = "%" THEN StripPercent(SubSeq(s, 1, Len(s) - 1))
    ELSE s

\* float(s) of a non-empty string of decimal digits; -1 stands for
\* ValueError
RECURSIVE ParseDigits(_, _)
ParseDigits(s, acc) ==
    IF s = <<>> THEN acc
    ELSE IF Ord(Head(s)) \notin 48..57 THEN -1
    ELSE ParseDigits(Tail(s), 10 * acc + (Ord(Head(s)) - 48))

\* if isinstance(attr[field], str) and '%' in attr[field]:
\*     attr[field] = float(attr[field].strip('%'))
Preprocess(gap) ==
    IF gap.t = "str" /\ \E i \in 1..Len(gap.s) : gap.s[i] = "%"
    THEN [t |-> "float", s |-> <<>>,
          n |-> IF StripPercent(gap.s) = <<>> THEN -1
                ELSE ParseDigits(StripPercent(gap.s), 0)]
    ELSE gap

\* a < b of two strings
RECURSIVE StrLess(_, _)
StrLess(a, b) ==
    IF b = <<>> THEN FALSE
    ELSE IF a = <<>> THEN TRUE
    ELSE IF Head(a) # Head(b) THEN Ord(Head(a)) < Ord(Head(b))
    ELSE StrLess(Tail(a), Tail(b))

\* a < b of two keys of the same kind (numbers, or strings)
KeyLess(a, b) ==
    IF a.t = "str" THEN StrLess(a.s, b.s) ELSE a.n < b.n

\* the keys cannot all be compared: a string meets a number
Unorderable(attrs) ==
    \E i, j \in 1..Len(attrs) :
        attrs[i].gap.t = "str" /\ attrs[j].gap.t # "str"

\* insertion of x behind every element whose key is not smaller than x's
RECURSIVE InsertDescending(_, _)
InsertDescending(sorted, x) ==
    IF sorted = <<>> THEN <<x>>
    ELSE IF KeyLess(Head(sorted).gap, x.gap)
    THEN <<x>> \o sorted
    ELSE <<Head(sorted)>> \o InsertDescending(Tail(sorted), x)

\* variant: sorted ascending, then reversed (equal gaps change places)
RECURSIVE SortedByGap_then_reversed(_)
SortedByGap_then_reversed(attrs) ==
    IF attrs = <<>> THEN <<>>
    ELSE InsertDescending(SortedByGap_then_reversed(Tail(attrs)),
                          Head(attrs))

\* sorted(attributes, key=lambda x: x["gap"], reverse=True): a stable sort,
\* so attributes of equal gap keep their order
RECURSIVE SortedByGap(_)
SortedByGap(attrs) ==
    IF attrs = <<>> THEN <<>>
    ELSE InsertDescending(SortedByGap(SubSeq(attrs, 1, Len(attrs) - 1)),
                          attrs[Len(attrs)])

\* attributes_sorted[:min(5, len(attributes))]
FocusAttributes(attributes_sorted, n) ==
    SubSeq(attributes_sorted, 1, IF n < 5 THEN n ELSE 5)

\* gap values of a request: numbers, percent strings, other strings
GapValues ==
    {JInt(30), JStr(<<"3", "0", "%">>), JStr(<<"5", "%">>),
     JStr(<<"9">>), JStr(<<"1", "0">>)}

InitPlan ==
    /\ op = "main.generate_study_plan"
    /\ pc = "attributes"
    /\ label = ""
    /\ files = <<>>
    /\ idx = 1
    /\ form_scheme = "none"
    /\ params \in {[attributeDetails |->
                      [i \in 1..Len(gaps) |-> [name |-> i, gap |-> gaps[i]]]] :
                   gaps \in SeqsUpTo(GapValues, MaxAttributes)}
    /\ marking_scheme = [t |-> "none", size |-> 0]
    /\ markdown_content = <<>>
    /\ ai = <<>>
    /\ result = NoResult
    /\ locals = NoLocals
    /\ disk = {}
    /\ tmp_path = "unbound"
    /\ calls = NoCalls
    /\ results = <<>>
    /\ status = 0
    /\ body = <<>>

\* generate_study_plan from "Preprocess attributes" to focus_attributes;
\* a TypeError of the sort is caught by the handler's except clause (500)
SelectFocusAttributes ==
    /\ op = "main.generate_study_plan"
    /\ pc = "attributes"
    /\ LET attributes ==
             [i \in 1..Len(params.attributeDetails) |->
                [name |-> params.attributeDetails[i].name,
                 gap |-> Preprocess(params.attributeDetails[i].gap)]]
       IN IF Unorderable(attributes)
          THEN /\ result' = [raised |-> TRUE, value |-> <<"TypeError">>]
               /\ status' = 500
               /\ pc' = "done"
          ELSE /\ result' = [raised |-> FALSE,
                             value |-> FocusAttributes(SortedByGap(attributes),
                                                       Len(attributes))]
               /\ status' = status
               /\ pc' = "prompt"
    /\ UNCHANGED <<request, idx, marking_scheme, markdown_content, ai, locals,
                   disk, tmp_path, calls, results, body>>

SpecPlan == InitPlan /\ [][SelectFocusAttributes]_vars

\* the gap is a number or a percent string such as "30%"
NumberOrPercent(gap) ==
    gap.t = "int" \/ (gap.t = "str" /\ gap.s[Len(gap.s)] = "%")

\* numeric value of such a gap
GapValue(gap) ==
    IF gap.t = "int" THEN gap.n
    ELSE IF gap.s = <<"3", "0", "%">> THEN 30 ELSE 5

\* C25: generate_study_plan puts into the prompt min(5, n) of the n request
\* attributes, those with the largest gap values, in non-increasing gap
\* order, attributes of equal gap keeping their request order; gaps given
\* as percent strings and as numbers are ordered by their numeric value.
C25_LargestGapsFirst ==
    (pc \in {"prompt", "done"}
       /\ \A i \in 1..Len(params.attributeDetails) :
             NumberOrPercent(params.attributeDetails[i].gap)) =>
        LET attrs == params.attributeDetails
            n     == Len(attrs)
            focus == result.value
            gap(k) == GapValue(attrs[k].gap)
        IN /\ pc = "prompt"
           /\ Len(focus) = IF n < 5 THEN n ELSE 5
           /\ \A i \in 1..Len(focus) : focus[i].name \in 1..n
           /\ \A i, j \in 1..Len(focus) :
                 i < j =>
                   /\ focus[i].name # focus[j].name
                   /\ gap(focus[i].name) >= gap(focus[j].name)
                   /\ gap(focus[i].name) = gap(focus[j].name)
                        => focus[i].name < focus[j].name
           /\ \A k \in 1..n :
                 (\A i \in 1..Len(focus) : focus[i].name # k) =>
                    \A i \in 1..Len(focus) : gap(focus[i].name) >= gap(k)

\* C25 witness: six attributes, numbers and a percent string of equal value
\* among them, the later of the two smallest gaps left out
C25_Witness ==
    /\ pc = "prompt"
    /\ Len(params.attributeDetails) = 6
    /\ [i \in 1..6 |-> params.attributeDetails[i].gap]
         = <<JStr(<<"5", "%">>), JStr(<<"3", "0", "%">>), JInt(30),
             JStr(<<"5", "%">>), JInt(30), JInt(30)>>
    /\ [i \in 1..5 |-> result.value[i].name] = <<2, 3, 5, 6, 1>>

----------------------------------------------------------------------------
(* SpecConc: several requests in one server process.  Every handler is a   *)
(* coroutine on the single event loop of uvicorn; idx is the request whose *)
(* coroutine holds the loop (0: the loop is idle).  A coroutine gives up   *)
(* the loop only at an await or at its end.  process_file, upload_file and *)
(* the provider clients are called without await; get_document awaits its  *)
(* download.  Here op, pc, tmp_path and status are functions of the        *)
(* request, calls is the sequence of provider calls made and results the   *)
(* sequence of temp-file events, each with the request that made it.       *)

NumRequests == 2

Requests == 1..NumRequests

ConcOps == {"main.unified_ocr", "main.upload_file", "main.get_document"}

\* names NamedTemporaryFile can return: any name that no file bears now
TempNames == {TempName(i) : i \in Requests}

InitConc ==
    /\ op \in [Requests -> ConcOps]
    /\ pc = [r \in Requests |-> "received"]
    /\ label = ""
    /\ files = <<>>
    /\ idx = 0
    /\ form_scheme = "none"
    /\ params = NoParams
    /\ marking_scheme = [t |-> "none", size |-> 0]
    /\ markdown_content = <<>>
    /\ ai = <<>>
    /\ result = NoResult
    /\ locals = NoLocals
    /\ disk = {}
    /\ tmp_path = [r \in Requests |-> <<>>]
    /\ calls = <<>>
    /\ results = <<>>
    /\ status = [r \in Requests |-> 0]
    /\ body = <<>>

Called(r, c) == Append(calls, [r |-> r, call |-> c])

Created(r, name) == Append(results, [r |-> r, ev |-> "create", name |-> name])

Unlinked(log, r, name) == Append(log, [r |-> r, ev |-> "unlink", name |-> name])

\* the coroutine of r moves on and keeps the event loop
Goto(r, next) ==
    /\ pc' = [pc EXCEPT ![r] = next]
    /\ UNCHANGED <<idx, status>>

\* the coroutine of r ends: the response is sent and the loop is free
Finish(r, code) ==
    /\ pc' = [pc EXCEPT ![r] = "done"]
    /\ status' = [status EXCEPT ![r] = code]
    /\ idx' = 0

\* variant: the except branch unlinks without asking whether the file exists
CleanupUnlinks_without_exists(d, tp) == tp # <<>>

\* if 'tmp_path' in locals() and os.path.exists(tmp_path):
CleanupUnlinks(d, tp) == tp # <<>> /\ tp \in d

\* except Exception: cleanup, raise HTTPException(500); d and log are the
\* disk and the temp-file events at the moment of the exception
ConcRaise(r, d, log) ==
    /\ disk' = ExceptCleanup(d, tmp_path[r])
    /\ results' = IF CleanupUnlinks(d, tmp_path[r])
                  THEN Unlinked(log, r, tmp_path[r]) ELSE log
    /\ Finish(r, 500)

\* the event loop starts the handler of a request that has arrived
Dispatch(r) ==
    /\ idx = 0
    /\ pc[r] = "received"
    /\ idx' = r
    /\ pc' = [pc EXCEPT ![r] = IF op[r] = "main.get_document"
                               THEN "lookup" ELSE "save_upload"]
    /\ UNCHANGED <<request, marking_scheme, markdown_content, ai, result,
                   locals, disk, tmp_path, calls, results, status, body>>

\* NamedTemporaryFile, file.file.read(), tmp.write, tmp_path = tmp.name
ConcSaveUpload(r) ==
    /\ idx = r
    /\ pc[r] = "save_upload"
    /\ \E name \in TempNames \ disk :
         \/ /\ disk' = disk \cup {name}
            /\ tmp_path' = [tmp_path EXCEPT ![r] = name]
            /\ results' = Created(r, name)
            /\ Goto(r, "upload")
         \/ \* read or write raises: tmp_path is not bound yet
            /\ ConcRaise(r, disk \cup {name}, Created(r, name))
            /\ UNCHANGED tmp_path
    /\ UNCHANGED <<request, marking_scheme, markdown_content, ai, result,
                   locals, calls, body>>

\* client.files.upload(...)
ConcUpload(r) ==
    /\ idx = r
    /\ pc[r] = "upload"
    /\ calls' = Called(r, "upload")
    /\ \/ Goto(r, "signed_url") /\ UNCHANGED <<disk, results>>
       \/ ConcRaise(r, disk, results)
    /\ UNCHANGED <<request, marking_scheme, markdown_content, ai, result,
                   locals, tmp_path, body>>

\* client.files.get_signed_url(file_id=file_id)
ConcSignedUrl(r) ==
    /\ idx = r
    /\ pc[r] = "signed_url"
    /\ calls' = Called(r, "signed_url")
    /\ \/ /\ Goto(r, IF op[r] = "main.upload_file"
                     THEN "upload_respond" ELSE "ocr")
          /\ UNCHANGED <<disk, results>>
       \/ ConcRaise(r, disk, results)
    /\ UNCHANGED <<request, marking_scheme, markdown_content, ai, result,
                   locals, tmp_path, body>>

\* client.ocr.process(...), os.unlink(tmp_path), the join of the pages
ConcOcr(r) ==
    /\ idx = r
    /\ pc[r] = "ocr"
    /\ calls' = Called(r, "ocr")
    /\ \/ /\ disk' = disk \ {tmp_path[r]}
          /\ results' = Unlinked(results, r, tmp_path[r])
          /\ Goto(r, "verify")
       \/ \* the OCR call raises
          ConcRaise(r, disk, results)
       \/ \* a page has no text: the join raises after the unlink
          ConcRaise(r, disk \ {tmp_path[r]},
                    Unlinked(results, r, tmp_path[r]))
    /\ UNCHANGED <<request, marking_scheme, markdown_content, ai, result,
                   locals, tmp_path, body>>

\* verify_document_category: client.chat.complete(...), and the response
ConcVerify(r) ==
    /\ idx = r
    /\ pc[r] = "verify"
    /\ calls' = Called(r, "generate")
    /\ Finish(r, 200)
    /\ UNCHANGED <<request, marking_scheme, markdown_content, ai, result,
                   locals, disk, tmp_path, results, body>>

\* upload_file: os.unlink(tmp_path) and the response
ConcUploadRespond(r) ==
    /\ idx = r
    /\ pc[r] = "upload_respond"
    /\ disk' = disk \ {tmp_path[r]}
    /\ results' = Unlinked(results, r, tmp_path[r])
    /\ Finish(r, 200)
    /\ UNCHANGED <<request, marking_scheme, markdown_content, ai, result,
                   locals, tmp_path, calls, body>>

\* get_document: client.files.get_signed_url(...), then
\* await http_client.get(...): the coroutine is suspended, the loop is free
ConcLookup(r) ==
    /\ idx = r
    /\ pc[r] = "lookup"
    /\ \/ /\ calls' = Called(r, "signed_url") \o <<[r |-> r, call |-> "get"]>>
          /\ pc' = [pc EXCEPT ![r] = "await_get"]
          /\ idx' = 0
          /\ UNCHANGED status
       \/ /\ calls' = Called(r, "signed_url")
          /\ Finish(r, 404)
    /\ UNCHANGED <<request, marking_scheme, markdown_content, ai, result,
                   locals, disk, tmp_path, results, body>>

\* the download completes and the idle loop resumes the coroutine
ConcGetReturns(r) ==
    /\ idx = 0
    /\ pc[r] = "await_get"
    /\ \E code \in {200, 404} : Finish(r, code)
    /\ UNCHANGED <<request, marking_scheme, markdown_content, ai, result,
                   locals, disk, tmp_path, calls, results, body>>

RequestStep(r) ==
    \/ Dispatch(r)
    \/ ConcSaveUpload(r)
    \/ ConcUpload(r)
    \/ ConcSignedUrl(r)
    \/ ConcOcr(r)
    \/ ConcVerify(r)
    \/ ConcUploadRespond(r)
    \/ ConcLookup(r)
    \/ ConcGetReturns(r)

NextConc == \E r \in Requests : RequestStep(r)

SpecConc == InitConc /\ [][NextConc]_vars

----------------------------------------------------------------------------
(* Properties of concurrent requests (SpecConc)                             *)

UploadingOps == {"main.unified_ocr", "main.upload_file"}

\* r has made a provider call and has another one to make
BetweenProviderCalls(r) ==
    /\ op[r] \in UploadingOps
    /\ pc[r] \in {"signed_url", "ocr", "verify"}

\* C22 as stated: two concurrent requests interleave freely at external
\* call boundaries: while one OCR/verification request is between two of
\* its provider calls, another such request that has not finished can take
\* its next step, its provider calls included (no lock, no ordering).
C22_FreeInterleaving ==
    \A r1, r2 \in Requests :
        (r1 # r2 /\ BetweenProviderCalls(r1)
           /\ op[r2] \in UploadingOps /\ pc[r2] # "done")
        => ENABLED RequestStep(r2)

\* the temp-file events that concern one name, in order
EventsOn(name) == SelectSeq(results, LAMBDA e : e.name = name)

\* C30: under any interleaving of concurrent requests each process_file or
\* upload_file call creates its own distinct temporary file, unlinks only
\* the file it created, and unlinks it at most once.
C30_OwnTempFileOnly ==
    /\ \A i, j \in 1..Len(results) :
          (i < j /\ results[i].ev = "create" /\ results[j].ev = "create") =>
             /\ results[i].r # results[j].r
             /\ results[i].name = results[j].name =>
                  \E k \in (i + 1)..(j - 1) :
                      /\ results[k].ev = "unlink"
                      /\ results[k].name = results[i].name
    /\ \A name \in TempNames :
          LET evs == EventsOn(name)
          IN \A k \in 1..Len(evs) :
                evs[k].ev = "unlink" =>
                   /\ k > 1
                   /\ evs[k - 1].ev = "create"
                   /\ evs[k - 1].r = evs[k].r

\* C30 witness: two requests got the same name one after the other, and
\* each removed the file it had created; the second one's join had failed
C30_Witness ==
    /\ Len(results) = 4
    /\ [i \in 1..4 |-> results[i].ev]
         = <<"create", "unlink", "create", "unlink">>
    /\ results[1].name = results[3].name
    /\ results[1].r # results[3].r
    /\ status[results[3].r] = 500
    /\ \E i \in 1..Len(calls) :
          calls[i].r = results[3].r /\ calls[i].call = "ocr"

====
